---- MODULE Spec2Model ----
(***************************************************************************)
(* Credential lifecycle and authorization pipeline of the sso service:     *)
(* the JWT codec (lib/jwt), the credential service (services/auth), the    *)
(* permission service (services/permission), the refresh-token and grant   *)
(* tables (storage/postgres) and the permission interceptor (app/grpc).    *)
(*                                                                         *)
(* Go values are modelled as follows.                                      *)
(*   - a *T pointer or an optional JSON key is a sequence: <<>> is nil /   *)
(*     absent, <<v>> is a value;                                           *)
(*   - an error is a string, "nil" for no error;                           *)
(*   - a formatted string (fmt.Sprintf) is the tuple of its format tag and *)
(*     arguments: distinct arguments give distinct strings;                *)
(*   - time is whole seconds (time.Now().Unix());                          *)
(*   - an HMAC is the pair of the key and the signed text: it verifies     *)
(*     under a secret exactly when it was made with that secret over the   *)
(*     same text.                                                          *)
(***************************************************************************)
EXTENDS Integers, Sequences, FiniteSets, TLC

VARIABLES
    now,            \* the wall clock, in seconds
    tokenTTL,       \* Auth.tokenTTL
    refreshTTL,     \* Auth.refreshTTL
    users,          \* table users
    grants,         \* table users_permissions: pairs <<user id, permission id>>
    refreshTokens,  \* table refresh_tokens
    usersSeq,       \* sequence users_id_seq: the last id drawn
    issued,         \* the number of opaque tokens drawn from crypto/rand so far
    verificationTokens, \* table email_verification_tokens
    resetTokens,    \* table password_reset_tokens
    txs,            \* the open transactions of Storage.VerifyEmail, by connection
    call,           \* the last call served: its inputs, its result, what it looked up
    goroutine,      \* main: the position of each goroutine of the process
    grpCtxDone,     \* main: grpCtx.Done() is closed
    errChan,        \* main: the buffered channel the gRPC loop reports into
    gRPCServer,     \* the grpc.Server behind App.GRPCServer
    httpServer,     \* the http.Server behind App.HTTPServer
    inflight,       \* the RPC calls the gRPC server is serving
    storage,        \* the storage pool: open or closed
    crashed         \* a panic left a goroutine: the process is gone

\* the state behind the account flows: registration, verification, reset
account == <<usersSeq, issued, verificationTokens, resetTokens, txs>>

\* the state of the process around the services: its two server loops, the
\* goroutines of main and the storage pool
shutdown == <<goroutine, grpCtxDone, errChan, gRPCServer, httpServer, inflight,
              storage, crashed>>

vars == <<now, tokenTTL, refreshTTL, users, grants, refreshTokens, account, call,
          shutdown>>

\* the goroutines main starts, and main itself
Goroutines == {"main", "signal", "grpc", "Run", "http", "ListenAndServe"}

\* main after app.New: the two group members are launched, the signal
\* goroutine listens, main waits for the group; no server loop runs yet
Launched ==
    /\ goroutine = [g \in Goroutines |->
                        CASE g = "main" -> "Wait"
                          [] g = "signal" -> "stop"
                          [] g = "grpc" -> "go"
                          [] g = "http" -> "Start"
                          [] OTHER -> "none"]
    /\ grpCtxDone = FALSE
    /\ errChan = <<>>
    /\ gRPCServer = "new"
    /\ httpServer = "nil"
    /\ inflight = 0
    /\ storage = "open"
    /\ crashed = FALSE

(***************************************************************************)
(* Bounds of the model.                                                    *)
(***************************************************************************)
MaxTime == 2        \* the clock runs from 0 to MaxTime
MaxRows == 2        \* refresh_tokens holds at most this many rows
MaxPolicyLen == 2   \* longest Required / OneOf list tried

(***************************************************************************)
(* Reference data.                                                         *)
(***************************************************************************)
\* rows of table apps: ids with pairwise different secrets
Apps == {1, 2}
UnknownApps == {3}
Secret(appID) == <<"secret", appID>>
\* a key that is no app's secret
AttackerKey == <<"secret", 0>>
AppRow(appID) == [ID |-> appID, Name |-> <<"app", appID>>, Secret |-> Secret(appID)]

\* table permissions: id -> code
Catalogue == <<"user", "admin", "staff">>
PermIDs == DOMAIN Catalogue
DefaultPermID == 1
PolicyCodes == {"admin", "staff"}

\* bcrypt: the hash of a password verifies that password and no other
Hash(password) == <<"bcrypt", password>>
CompareHashAndPassword(hash, password) == hash = Hash(password)

UserIDs == {1, 2}
GhostUsers == {9}
EmailOf(uid) == <<"mail", uid>>
SeedUsers ==
    { [ID |-> u, Email |-> EmailOf(u), Name |-> <<"name", u>>,
       Phone |-> <<"phone", u>>, Address |-> <<"address", u>>,
       PasswordHash |-> Hash(<<"pw", u>>), Activated |-> FALSE] : u \in UserIDs }

(***************************************************************************)
(* lib/jwt: claims, minting.                                               *)
(***************************************************************************)
\* jwt.RegisteredClaims as filled by NewToken / NewRefreshToken
RegisteredClaims(exp, iat, nbf, iss, sub, id) ==
    [ExpiresAt |-> exp, IssuedAt |-> iat, NotBefore |-> nbf,
     Issuer |-> iss, Subject |-> sub, ID |-> id]

\* the TokenClaims struct
TokenClaims(uid, email, name, type, exp, appID, perms, iss, iat, rc) ==
    [UserID |-> uid, Email |-> email, Name |-> name, Type |-> type,
     ExpiresAt |-> exp, AppID |-> appID, Permissions |-> perms,
     Issuer |-> iss, IssuedAt |-> iat, RegisteredClaims |-> rc]

\* an encoding that leaves the permissions out
MarshalClaimsNoPermissions(c) ==
    [user_id |-> c.UserID, email |-> c.Email, name |-> c.Name, type |-> c.Type,
     exp |-> c.ExpiresAt, app_id |-> c.AppID, permissions |-> <<>>,
     iss |-> c.Issuer, iat |-> c.IssuedAt,
     nbf |-> c.RegisteredClaims.NotBefore,
     sub |-> c.RegisteredClaims.Subject,
     jti |-> c.RegisteredClaims.ID]

\* encoding/json of a TokenClaims: a key is taken from the least nested field
\* that carries it, so exp, iss and iat are the struct's own int64/string
\* fields and the embedded RegisteredClaims gives only nbf, sub and jti.
\* permissions has omitempty: an empty list is left out (<<>> = absent).
MarshalClaims(c) ==
    [user_id |-> c.UserID, email |-> c.Email, name |-> c.Name, type |-> c.Type,
     exp |-> c.ExpiresAt, app_id |-> c.AppID, permissions |-> c.Permissions,
     iss |-> c.Issuer, iat |-> c.IssuedAt,
     nbf |-> c.RegisteredClaims.NotBefore,
     sub |-> c.RegisteredClaims.Subject,
     jti |-> c.RegisteredClaims.ID]

\* json.Unmarshal into &TokenClaims{}: the same rule sends exp, iss and iat
\* to the struct's own fields; RegisteredClaims.ExpiresAt, .IssuedAt and
\* .Issuer are never written and stay nil / empty.
UnmarshalClaims(p) ==
    TokenClaims(p.user_id, p.email, p.name, p.type, p.exp, p.app_id,
                p.permissions, p.iss, p.iat,
                RegisteredClaims(<<>>, <<>>, p.nbf, <<>>, p.sub, p.jti))

\* HMAC-SHA256 of header and payload under key
HMAC(alg, payload, key) == [key |-> key, over |-> <<alg, payload>>]

\* jwt.NewWithClaims(method, claims).SignedString(key): three segments
SignedString(alg, claims, key) ==
    [segments |-> 3, alg |-> alg, payload |-> MarshalClaims(claims),
     sig |-> HMAC(alg, MarshalClaims(claims), key)]

\* permissionCodes[i] = permissions[i].Code
PermissionCodes(permissions) ==
    [i \in DOMAIN permissions |-> permissions[i].Code]

NewToken(user, app, permissions, duration, t) ==
    SignedString("HS256",
        TokenClaims(user.ID, user.Email, user.Name, "access", t + duration,
                    app.ID, PermissionCodes(permissions), <<"sso-app", app.ID>>, t,
                    RegisteredClaims(<<t + duration>>, <<t>>, <<t>>,
                                     <<"sso-app", app.ID>>, <<"user", user.ID>>,
                                     <<"", user.ID, app.ID, t>>)),
        app.Secret)

NewRefreshToken(user, app, duration, t) ==
    SignedString("HS256",
        TokenClaims(user.ID, user.Email, user.Name, "refresh", t + duration,
                    app.ID, <<>>, <<"sso-app", app.ID>>, t,
                    RegisteredClaims(<<t + duration>>, <<t>>, <<t>>,
                                     <<"sso-app", app.ID>>, <<"user", user.ID>>,
                                     <<"refresh", user.ID, app.ID, t>>)),
        app.Secret)

(***************************************************************************)
(* lib/jwt: parsing and validation.                                        *)
(***************************************************************************)
HMACFamily == {"HS256", "HS384", "HS512"}

\* a parse that accepts any signature
ParseWithClaimsNoSignature(tok, secret, t) ==
    IF tok.segments # 3 THEN [err |-> "malformed", claims |-> <<>>]
    ELSE IF tok.alg \notin HMACFamily THEN [err |-> "unverifiable", claims |-> <<>>]
    ELSE [err |-> "nil", claims |-> <<UnmarshalClaims(tok.payload)>>]

\* jwt.ParseWithClaims(tokenString, &TokenClaims{}, keyFunc) at time t, with
\* the keyFunc of ValidateToken / ValidateTokenBase (HMAC methods only, key =
\* secret). The library parses the segments, asks keyFunc for the key, checks
\* the signature and then validates the registered claims through the Claims
\* interface: GetExpirationTime and GetNotBefore are the methods promoted
\* from the embedded RegisteredClaims, so they read RegisteredClaims.ExpiresAt
\* and .NotBefore; a nil date is not checked (exp is not required).
\* err is the library's error: "nil", "malformed", "unverifiable",
\* "signature", "expired" or "notvalidyet".
ParseWithClaims(tok, secret, t) ==
    IF tok.segments # 3 THEN [err |-> "malformed", claims |-> <<>>]
    ELSE IF tok.alg \notin HMACFamily THEN [err |-> "unverifiable", claims |-> <<>>]
    ELSE IF tok.sig # HMAC(tok.alg, tok.payload, secret)
         THEN [err |-> "signature", claims |-> <<>>]
    ELSE LET c == UnmarshalClaims(tok.payload)
             exp == c.RegisteredClaims.ExpiresAt
             nbf == c.RegisteredClaims.NotBefore
         IN  IF exp # <<>> /\ ~(t < exp[1]) THEN [err |-> "expired", claims |-> <<>>]
             ELSE IF nbf # <<>> /\ t < nbf[1]
                  THEN [err |-> "notvalidyet", claims |-> <<>>]
             ELSE [err |-> "nil", claims |-> <<c>>]

\* errors.Is(err, jwt.ErrTokenExpired) ? ErrTokenExpired : ErrTokenInvalid
MapParseError(err) ==
    IF err = "expired" THEN "ErrTokenExpired" ELSE "ErrTokenInvalid"

\* ValidateTokenBase(tokenString, secret): (claims, err); claims is nil on error.
\* token.Valid is true whenever the parse returned no error, so ErrClaimsInvalid
\* is not produced.
ValidateTokenBase(tok, secret, t) ==
    LET r == ParseWithClaims(tok, secret, t)
    IN  IF r.err # "nil" THEN [claims |-> <<>>, err |-> MapParseError(r.err)]
        ELSE [claims |-> r.claims, err |-> "nil"]

\* ValidateToken(tokenString, secret): the access-token validation
ValidateToken(tok, secret, t) ==
    LET r == ParseWithClaims(tok, secret, t)
    IN  IF r.err # "nil" THEN [claims |-> <<>>, err |-> MapParseError(r.err)]
        ELSE IF r.claims[1].Type # "access"
             THEN [claims |-> <<>>, err |-> "ErrNotAccessToken"]
        ELSE [claims |-> r.claims, err |-> "nil"]

\* a refresh validation without the type check
ValidateRefreshTokenAnyType(tok, secret, t) == ValidateTokenBase(tok, secret, t)

\* ValidateRefreshToken(refreshString, secret)
ValidateRefreshToken(tok, secret, t) ==
    LET r == ValidateTokenBase(tok, secret, t)
    IN  IF r.err # "nil" THEN [claims |-> <<>>, err |-> r.err]
        ELSE IF r.claims[1].Type # "refresh"
             THEN [claims |-> <<>>, err |-> "ErrNotRefreshToken"]
        ELSE [claims |-> r.claims, err |-> "nil"]

\* DecodeWithoutValidation(tokenString): ParseUnverified, no signature and no
\* claims validation
DecodeWithoutValidation(tok) ==
    IF tok.segments # 3 THEN [claims |-> <<>>, err |-> "ErrTokenMalformed"]
    ELSE [claims |-> <<UnmarshalClaims(tok.payload)>>, err |-> "nil"]

\* a snapshot test that finds nothing
HasPermissionNever(c, permissionCode) == FALSE

\* (c *TokenClaims) HasPermission(permissionCode)
HasPermission(c, permissionCode) ==
    \E i \in DOMAIN c.Permissions : c.Permissions[i] = permissionCode

(***************************************************************************)
(* storage/postgres: the queries the core uses. faults is the set of       *)
(* storage calls that fail with a driver error during the call served.     *)
(***************************************************************************)
\* a user lookup that reports every failure as a missing row
\* column users.email is citext: it is compared, and unique, without regard
\* to case. An email is <<tag, n>>; the tag "MAIL" is "mail" in upper case.
Fold(email) == IF email # <<>> /\ email[1] = "MAIL" THEN <<"mail", email[2]>> ELSE email

UserByEmailAllNotFound(email, faults) ==
    IF "UserByEmail" \notin faults /\ \E u \in users : Fold(u.Email) = Fold(email)
    THEN [user |-> <<CHOOSE u \in users : Fold(u.Email) = Fold(email)>>, err |-> "nil"]
    ELSE [user |-> <<>>, err |-> "ErrUserNotFound"]

\* Storage.UserByEmail
UserByEmail(email, faults) ==
    IF "UserByEmail" \in faults THEN [user |-> <<>>, err |-> "driver"]
    ELSE IF \E u \in users : Fold(u.Email) = Fold(email)
         THEN [user |-> <<CHOOSE u \in users : Fold(u.Email) = Fold(email)>>,
               err |-> "nil"]
    ELSE [user |-> <<>>, err |-> "ErrUserNotFound"]

\* Storage.UserByID
UserByID(userID, faults) ==
    IF "UserByID" \in faults THEN [user |-> <<>>, err |-> "driver"]
    ELSE IF \E u \in users : u.ID = userID
         THEN [user |-> <<CHOOSE u \in users : u.ID = userID>>, err |-> "nil"]
    ELSE [user |-> <<>>, err |-> "ErrUserNotFound"]

\* Storage.App
App(id, faults) ==
    IF "App" \in faults THEN [app |-> <<>>, err |-> "driver"]
    ELSE IF id \in Apps THEN [app |-> <<AppRow(id)>>, err |-> "nil"]
    ELSE [app |-> <<>>, err |-> "ErrAppNotFound"]

\* Auth.GetAppSecret: the AppProvider handed to the interceptor
GetAppSecret(appID, faults) ==
    LET r == App(appID, faults)
    IN  IF r.err # "nil" THEN [secret |-> <<>>, err |-> r.err]
        ELSE [secret |-> <<r.app[1].Secret>>, err |-> "nil"]

\* the rows [ID, Code] of table permissions with an id in ids, from id pid
\* on, ascending
RECURSIVE PermissionRows(_, _)
PermissionRows(ids, pid) ==
    IF pid > Len(Catalogue) THEN <<>>
    ELSE (IF pid \in ids THEN <<[ID |-> pid, Code |-> Catalogue[pid]]>> ELSE <<>>)
         \o PermissionRows(ids, pid + 1)

\* Storage.UserPermissions: the join of permissions and users_permissions
UserPermissions(userID, faults) ==
    IF "UserPermissions" \in faults THEN [permissions |-> <<>>, err |-> "driver"]
    ELSE [permissions |->
              PermissionRows({pid \in PermIDs : <<userID, pid>> \in grants}, 1),
          err |-> "nil"]

\* Storage.HasUserPermission: SELECT EXISTS(...) always yields one row
StorageHasUserPermission(id, permission, faults) ==
    IF "HasUserPermission" \in faults THEN [allowed |-> FALSE, err |-> "driver"]
    ELSE [allowed |-> \E pid \in PermIDs :
                         <<id, pid>> \in grants /\ Catalogue[pid] = permission,
          err |-> "nil"]

\* table users_permissions: (user_id, permission_id) is its key, so an insert
\* of a stored pair conflicts
UsersPermissionsConflict(rows, userID, permissionID) ==
    <<userID, permissionID>> \in rows

\* Storage.AddUserPermission: INSERT ... ON CONFLICT DO NOTHING
AddUserPermission(rows, userID, permissionID) ==
    IF UsersPermissionsConflict(rows, userID, permissionID) THEN rows
    ELSE rows \cup {<<userID, permissionID>>}

\* an insert that stores nothing
SaveRefreshDropped(rows, token, userID, appID, expiresAt) == rows

\* a delete by owner: every record of the token's user goes
DeleteRefreshOfUser(rows, token) ==
    [rows |-> {r \in rows : \A q \in rows : q.token = token => r.user_id # q.user_id},
     err |-> IF \E r \in rows : r.token = token THEN "nil"
             ELSE "ErrRefreshTokenNotFound"]

\* an existence check without the expiry condition
ExistsRefreshAnyExpiry(rows, token, t) ==
    IF \E r \in rows : r.token = token
    THEN [exists |-> TRUE, err |-> "nil"]
    ELSE [exists |-> FALSE, err |-> "ErrNoRows"]

\* Storage.SaveRefresh: INSERT ... ON CONFLICT (token) DO NOTHING
SaveRefresh(rows, token, userID, appID, expiresAt) ==
    IF \E r \in rows : r.token = token THEN rows
    ELSE rows \cup {[token |-> token, user_id |-> userID, app_id |-> appID,
                     expires_at |-> expiresAt]}

\* Storage.DeleteRefresh: the rows left, and ErrRefreshTokenNotFound when
\* no row was affected
DeleteRefresh(rows, token) ==
    [rows |-> {r \in rows : r.token # token},
     err |-> IF \E r \in rows : r.token = token THEN "nil"
             ELSE "ErrRefreshTokenNotFound"]

\* Storage.ExistsRefresh: ... WHERE token = $1 AND expires_at > now(); no row
\* is the scan error
ExistsRefresh(rows, token, t) ==
    IF \E r \in rows : r.token = token /\ r.expires_at > t
    THEN [exists |-> TRUE, err |-> "nil"]
    ELSE [exists |-> FALSE, err |-> "ErrNoRows"]

(***************************************************************************)
(* services/permission                                                     *)
(***************************************************************************)
\* Permission.validateUserExists
validateUserExists(userID, faults) ==
    LET r == UserByID(userID, faults)
    IN  IF r.err = "ErrUserNotFound" THEN "ErrInvalidCredentials" ELSE r.err

\* a permission lookup that answers from no storage: always not allowed
HasUserPermissionNever(userID, permission, faults) ==
    IF permission = "" THEN [allowed |-> FALSE, err |-> "ErrInvalidInput"]
    ELSE IF validateUserExists(userID, faults) # "nil"
         THEN [allowed |-> FALSE, err |-> validateUserExists(userID, faults)]
    ELSE [allowed |-> FALSE, err |-> "nil"]

\* Permission.HasUserPermission
HasUserPermission(userID, permission, faults) ==
    IF permission = "" THEN [allowed |-> FALSE, err |-> "ErrInvalidInput"]
    ELSE IF validateUserExists(userID, faults) # "nil"
         THEN [allowed |-> FALSE, err |-> validateUserExists(userID, faults)]
    ELSE StorageHasUserPermission(userID, permission, faults)

\* a permission listing that knows the default grant only
GetUserPermissionsDefaultOnly(userID, faults) ==
    IF validateUserExists(userID, faults) # "nil"
    THEN [permissions |-> <<>>, err |-> validateUserExists(userID, faults)]
    ELSE [permissions |-> PermissionRows({DefaultPermID}, 1), err |-> "nil"]

\* Permission.GetUserPermissionsAsModels
GetUserPermissionsAsModels(userID, faults) ==
    IF validateUserExists(userID, faults) # "nil"
    THEN [permissions |-> <<>>, err |-> validateUserExists(userID, faults)]
    ELSE UserPermissions(userID, faults)

(***************************************************************************)
(* app/grpc: the permission interceptor.                                   *)
(***************************************************************************)
\* MethodPermissions{Required, OneOf, RequireAuth}
MethodPermissions(required, oneOf, requireAuth) ==
    [Required |-> required, OneOf |-> oneOf, RequireAuth |-> requireAuth]

\* the policy table with GetUserInfo and Logout asking for admin
methodPermissionsAdminOnly ==
    ("/sso.Auth/GetUserInfo" :> [Required |-> <<"admin">>, OneOf |-> <<>>,
                                 RequireAuth |-> TRUE]) @@
    ("/sso.Permission/GetUserPermissions" :>
        [Required |-> <<>>, OneOf |-> <<"admin", "staff">>, RequireAuth |-> FALSE]) @@
    ("/sso.Auth/Logout" :> [Required |-> <<"admin">>, OneOf |-> <<>>,
                            RequireAuth |-> TRUE])

\* var methodPermissions: the policy table
methodPermissions ==
    ("/sso.Auth/GetUserInfo" :> MethodPermissions(<<>>, <<>>, TRUE)) @@
    ("/sso.Permission/GetUserPermissions" :>
        MethodPermissions(<<>>, <<"admin", "staff">>, FALSE)) @@
    ("/sso.Auth/Logout" :> MethodPermissions(<<>>, <<>>, TRUE))

\* status.Error(code, msg); OK is the nil error
Status(code, msg) == [code |-> code, msg |-> msg]
OK == Status("OK", <<>>)

\* an extraction that takes the header as the token when the prefix is absent
extractTokenAnyHeader(md) ==
    IF md.kind = "nometadata" THEN [token |-> <<>>, err |-> "missing metadata"]
    ELSE IF md.kind = "noheader"
         THEN [token |-> <<>>, err |-> "missing authorization header"]
    ELSE [token |-> <<md.token>>, err |-> "nil"]

\* extractTokenFromMetadata(ctx). The metadata md is [kind, token]:
\*   "nometadata"  no incoming metadata,
\*   "noheader"    metadata without an authorization header,
\*   "raw"         authorization: <token>        (no "Bearer " prefix),
\*   "bearer"      authorization: Bearer <token>
extractTokenFromMetadata(md) ==
    IF md.kind = "nometadata" THEN [token |-> <<>>, err |-> "missing metadata"]
    ELSE IF md.kind = "noheader"
         THEN [token |-> <<>>, err |-> "missing authorization header"]
    ELSE IF md.kind # "bearer"
         THEN [token |-> <<>>, err |-> "invalid authorization header format"]
    ELSE [token |-> <<md.token>>, err |-> "nil"]

\* validateTokenWithDynamicSecret trusting the unverified decode: the secret
\* is fetched but the token is not validated against it
validateTokenUnverified(token, faults, t) ==
    LET d == DecodeWithoutValidation(token)
    IN  IF d.err # "nil" THEN [claims |-> <<>>, err |-> "failed to decode token"]
        ELSE IF GetAppSecret(d.claims[1].AppID, faults).err # "nil"
             THEN [claims |-> <<>>, err |-> "failed to get app secret"]
        ELSE [claims |-> d.claims, err |-> "nil"]

\* validateTokenWithDynamicSecret(token, appProvider) at time t
validateTokenWithDynamicSecret(token, faults, t) ==
    LET d == DecodeWithoutValidation(token)
    IN  IF d.err # "nil" THEN [claims |-> <<>>, err |-> "failed to decode token"]
        ELSE LET s == GetAppSecret(d.claims[1].AppID, faults)
             IN  IF s.err # "nil"
                 THEN [claims |-> <<>>, err |-> "failed to get app secret"]
                 ELSE LET v == ValidateToken(token, s.secret[1], t)
                      IN  IF v.err # "nil"
                          THEN [claims |-> <<>>, err |-> "failed to validate token"]
                          ELSE [claims |-> v.claims, err |-> "nil"]

\* the Required loop satisfied by the first code alone
CheckRequiredFirstOnly(required, i, userID, claims, faults, lookups) ==
    IF Len(required) = 0 \/ HasPermission(claims, required[1])
    THEN [err |-> OK, lookups |-> lookups]
    ELSE LET r == HasUserPermission(userID, required[1], faults)
         IN  IF r.err # "nil"
             THEN [err |-> Status("Internal", <<"failed to check user permissions">>),
                   lookups |-> <<required[1]>>]
             ELSE IF ~r.allowed
                  THEN [err |-> Status("PermissionDenied",
                                       <<"missing required permission", required[1]>>),
                        lookups |-> <<required[1]>>]
             ELSE [err |-> OK, lookups |-> <<required[1]>>]

\* the Required loop taking a failed lookup for a permission not held
RECURSIVE CheckRequiredErrorDenies(_, _, _, _, _, _)
CheckRequiredErrorDenies(required, i, userID, claims, faults, lookups) ==
    IF i > Len(required) THEN [err |-> OK, lookups |-> lookups]
    ELSE IF HasPermission(claims, required[i])
         THEN CheckRequiredErrorDenies(required, i + 1, userID, claims, faults, lookups)
    ELSE IF HasUserPermission(userID, required[i], faults).err # "nil"
            \/ ~HasUserPermission(userID, required[i], faults).allowed
         THEN [err |-> Status("PermissionDenied",
                              <<"missing required permission", required[i]>>),
               lookups |-> Append(lookups, required[i])]
    ELSE CheckRequiredErrorDenies(required, i + 1, userID, claims, faults,
                                  Append(lookups, required[i]))

\* checkPermissions, the loop over permConfig.Required from index i on;
\* lookups lists the codes looked up in storage so far
RECURSIVE CheckRequired(_, _, _, _, _, _)
CheckRequired(required, i, userID, claims, faults, lookups) ==
    IF i > Len(required) THEN [err |-> OK, lookups |-> lookups]
    ELSE IF HasPermission(claims, required[i])
         THEN CheckRequired(required, i + 1, userID, claims, faults, lookups)
    ELSE LET r == HasUserPermission(userID, required[i], faults)
             seen == Append(lookups, required[i])
         IN  IF r.err # "nil"
             THEN [err |-> Status("Internal", <<"failed to check user permissions">>),
                   lookups |-> seen]
             ELSE IF ~r.allowed
                  THEN [err |-> Status("PermissionDenied",
                                       <<"missing required permission", required[i]>>),
                        lookups |-> seen]
             ELSE CheckRequired(required, i + 1, userID, claims, faults, seen)

\* the OneOf storage loop without the break: it goes on after a match
RECURSIVE CheckOneOfDBNoBreak(_, _, _, _, _)
CheckOneOfDBNoBreak(oneOf, i, userID, faults, lookups) ==
    IF i > Len(oneOf)
    THEN [err |-> IF \E k \in DOMAIN oneOf :
                        HasUserPermission(userID, oneOf[k], faults).allowed
                  THEN OK
                  ELSE Status("PermissionDenied",
                              <<"missing one of required permissions", oneOf>>),
          lookups |-> lookups]
    ELSE IF HasUserPermission(userID, oneOf[i], faults).err # "nil"
         THEN [err |-> Status("Internal", <<"failed to check user permissions">>),
               lookups |-> Append(lookups, oneOf[i])]
    ELSE CheckOneOfDBNoBreak(oneOf, i + 1, userID, faults, Append(lookups, oneOf[i]))

\* checkPermissions, the storage loop over permConfig.OneOf from index i on
RECURSIVE CheckOneOfDB(_, _, _, _, _)
CheckOneOfDB(oneOf, i, userID, faults, lookups) ==
    IF i > Len(oneOf)
    THEN [err |-> Status("PermissionDenied",
                         <<"missing one of required permissions", oneOf>>),
          lookups |-> lookups]
    ELSE LET r == HasUserPermission(userID, oneOf[i], faults)
             seen == Append(lookups, oneOf[i])
         IN  IF r.err # "nil"
             THEN [err |-> Status("Internal", <<"failed to check user permissions">>),
                   lookups |-> seen]
             ELSE IF r.allowed THEN [err |-> OK, lookups |-> seen]
             ELSE CheckOneOfDB(oneOf, i + 1, userID, faults, seen)

\* checkPermissions(ctx, userID, permConfig, pp, claims)
checkPermissions(userID, permConfig, claims, faults) ==
    IF permConfig.RequireAuth /\ Len(permConfig.Required) = 0
       /\ Len(permConfig.OneOf) = 0
    THEN [err |-> OK, lookups |-> <<>>]
    ELSE LET req == CheckRequired(permConfig.Required, 1, userID, claims, faults, <<>>)
         IN  IF req.err.code # "OK" THEN req
             ELSE IF Len(permConfig.OneOf) = 0 THEN req
             ELSE IF \E i \in DOMAIN permConfig.OneOf :
                        HasPermission(claims, permConfig.OneOf[i])
                  THEN req
             ELSE CheckOneOfDB(permConfig.OneOf, 1, userID, faults, req.lookups)

\* an interceptor that asks every method for a bearer token, listed or not
DecideAllMethods(table, fullMethod, md, faults, t) ==
    IF extractTokenFromMetadata(md).err # "nil"
    THEN [status |-> Status("Unauthenticated", <<"missing token">>),
          handler |-> FALSE, ctx |-> <<>>, steps |-> <<"metadata">>,
          lookups |-> <<>>]
    ELSE [status |-> OK, handler |-> TRUE, ctx |-> <<>>, steps |-> <<"metadata">>,
          lookups |-> <<>>]

\* The interceptor's decision for a call of fullMethod under policy table
\* `table`:
\*   status    the error returned without calling the handler, or OK
\*   handler   whether handler(ctx, req) was called
\*   ctx       the user_claims / user_id attached to the handler's context
\*   steps     what the interceptor did: "metadata", "decode", "secret",
\*             "validate", "check", in order
\*   lookups   the permission codes looked up in storage, in order
Decide(table, fullMethod, md, faults, t) ==
    IF fullMethod \notin DOMAIN table
    THEN [status |-> OK, handler |-> TRUE, ctx |-> <<>>, steps |-> <<>>,
          lookups |-> <<>>]
    ELSE LET x == extractTokenFromMetadata(md)
         IN  IF x.err # "nil"
             THEN [status |-> Status("Unauthenticated", <<"missing token">>),
                   handler |-> FALSE, ctx |-> <<>>, steps |-> <<"metadata">>,
                   lookups |-> <<>>]
             ELSE LET v == validateTokenWithDynamicSecret(x.token[1], faults, t)
                  IN  IF v.err # "nil"
                      THEN [status |-> Status("Unauthenticated", <<"invalid token">>),
                            handler |-> FALSE, ctx |-> <<>>,
                            steps |-> <<"metadata", "validate">>, lookups |-> <<>>]
                      ELSE LET claims == v.claims[1]
                               userID == claims.UserID
                               c == checkPermissions(userID, table[fullMethod],
                                                     claims, faults)
                           IN  IF c.err.code # "OK"
                               THEN [status |-> c.err, handler |-> FALSE, ctx |-> <<>>,
                                     steps |-> <<"metadata", "validate", "check">>,
                                     lookups |-> c.lookups]
                               ELSE [status |-> OK, handler |-> TRUE,
                                     ctx |-> <<[user_claims |-> claims,
                                                user_id |-> userID]>>,
                                     steps |-> <<"metadata", "validate", "check">>,
                                     lookups |-> c.lookups]

(***************************************************************************)
(* services/auth: the credential service and its RPC handlers.             *)
(***************************************************************************)
\* authServer.Login: the status returned for the service's error
LoginStatus(err) ==
    IF err = "nil" THEN OK
    ELSE IF err = "ErrInvalidCredentials"
         THEN Status("InvalidArgument", <<"invalid email or password">>)
    ELSE Status("Internal", <<"failed to login">>)

\* Auth.Login(ctx, email, password, appID) at time t on table rows: the
\* error, the tokens returned (nil on error) and the table afterwards
AuthLogin(email, password, appID, faults, rows, t) ==
    LET failed(e) == [err |-> e, token |-> <<>>, refresh |-> <<>>,
                      expiresAt |-> 0, rows |-> rows]
        u == UserByEmail(email, faults)
    IN  IF u.err = "ErrUserNotFound" THEN failed("ErrInvalidCredentials")
        ELSE IF u.err # "nil" THEN failed(u.err)
        ELSE IF ~CompareHashAndPassword(u.user[1].PasswordHash, password)
             THEN failed("ErrInvalidCredentials")
        ELSE LET user == u.user[1]
                 a == App(appID, faults)
                 p == GetUserPermissionsAsModels(user.ID, faults)
             IN  IF a.err # "nil" THEN failed(a.err)
                 ELSE IF p.err # "nil" THEN failed(p.err)
                 ELSE LET app == a.app[1]
                          token == NewToken(user, app, p.permissions, tokenTTL, t)
                          refresh == NewRefreshToken(user, app, refreshTTL, t)
                          saved == SaveRefresh(rows, refresh, user.ID, app.ID,
                                               t + refreshTTL)
                          exists == ExistsRefresh(saved, refresh, t)
                      IN  IF "SaveRefresh" \in faults THEN failed("driver")
                          ELSE IF "ExistsRefresh" \in faults
                                  \/ exists.err # "nil" \/ ~exists.exists
                               THEN [failed("invalid refresh token")
                                        EXCEPT !.rows = saved]
                          ELSE [err |-> "nil", token |-> <<token>>,
                                refresh |-> <<refresh>>,
                                expiresAt |-> t + tokenTTL, rows |-> saved]

\* Auth.Logout(ctx, refresh)
AuthLogout(refresh, faults, rows) ==
    IF "DeleteRefresh" \in faults
    THEN [success |-> FALSE, err |-> "driver", rows |-> rows]
    ELSE LET d == DeleteRefresh(rows, refresh)
         IN  IF d.err # "nil" THEN [success |-> FALSE, err |-> d.err, rows |-> rows]
             ELSE [success |-> TRUE, err |-> "nil", rows |-> d.rows]

\* Auth.RefreshToken(ctx, refresh) at time t on table rows. A validation
\* error is logged and execution goes on to validClaims.UserID with
\* validClaims nil: the nil dereference is the result "panic".
AuthRefreshToken(refresh, faults, rows, t) ==
    LET failed(e, rs) == [err |-> e, token |-> <<>>, refresh |-> <<>>,
                          expiresAt |-> 0, rows |-> rs]
        d == DecodeWithoutValidation(refresh)
    IN  IF d.err # "nil" THEN failed(d.err, rows)
        ELSE LET a == App(d.claims[1].AppID, faults)
             IN  IF a.err # "nil" THEN failed(a.err, rows)
                 ELSE LET app == a.app[1]
                          v == ValidateRefreshToken(refresh, app.Secret, t)
                      IN  IF v.claims = <<>> THEN failed("panic", rows)
                          ELSE LET u == UserByID(v.claims[1].UserID, faults)
                               IN  IF u.err # "nil" THEN failed(u.err, rows)
                                   ELSE LET user == u.user[1]
                                            p == GetUserPermissionsAsModels(user.ID, faults)
                                            newToken == NewToken(user, app, p.permissions,
                                                                 tokenTTL, t)
                                            newRefresh == NewRefreshToken(user, app,
                                                                          refreshTTL, t)
                                            deleted == IF "DeleteRefresh" \in faults
                                                       THEN rows
                                                       ELSE DeleteRefresh(rows, refresh).rows
                                            saved == SaveRefresh(deleted, newRefresh, user.ID,
                                                                 app.ID, t + refreshTTL)
                                        IN  IF p.err # "nil" THEN failed(p.err, rows)
                                            ELSE IF "SaveRefresh" \in faults
                                                 THEN failed("driver", deleted)
                                            ELSE [err |-> "nil", token |-> <<newToken>>,
                                                  refresh |-> <<newRefresh>>,
                                                  expiresAt |-> t + tokenTTL,
                                                  rows |-> saved]

\* a grant whose insert has no conflict clause: the second grant of a pair
\* is a unique violation
GrantPermissionOnce(userID, permissionID, faults, rows) ==
    IF validateUserExists(userID, faults) # "nil"
    THEN [err |-> validateUserExists(userID, faults), rows |-> rows]
    ELSE IF "AddUserPermission" \in faults THEN [err |-> "driver", rows |-> rows]
    ELSE IF UsersPermissionsConflict(rows, userID, permissionID)
    THEN [err |-> "driver", rows |-> rows]
    ELSE [err |-> "nil", rows |-> AddUserPermission(rows, userID, permissionID)]

\* Permission.GrantPermission(ctx, userID, permissionID)
GrantPermission(userID, permissionID, faults, rows) ==
    IF validateUserExists(userID, faults) # "nil"
    THEN [err |-> validateUserExists(userID, faults), rows |-> rows]
    ELSE IF "AddUserPermission" \in faults THEN [err |-> "driver", rows |-> rows]
    ELSE [err |-> "nil", rows |-> AddUserPermission(rows, userID, permissionID)]

(***************************************************************************)
(* The inputs tried.                                                       *)
(***************************************************************************)
\* the two configurations of (token_ttl, refresh_ttl): positive, negative
TTLConfigs == {<<1, 2>>, <<-1, -1>>}

\* a user row for an id that table users does not hold: only a holder of an
\* app secret can sign for it
GhostRow(g) == [ID |-> g, Email |-> EmailOf(g), Name |-> <<"name", g>>,
                Phone |-> <<"phone", g>>, Address |-> <<"address", g>>,
                PasswordHash |-> Hash(<<"pw", g>>), Activated |-> FALSE]

\* the permission sets a snapshot is minted from: the default grant and any
\* of the others
SnapshotSets == {{DefaultPermID} \cup S : S \in SUBSET (PermIDs \ {DefaultPermID})}

\* the access and refresh tokens minted at a time in ts for the users us, by
\* the service or (for a ghost user) by a holder of the app secret
MintedAccess(us, ts) ==
    { NewToken(u, AppRow(a), PermissionRows(S, 1), tokenTTL, t) :
        u \in us, a \in Apps, S \in SnapshotSets, t \in ts }
MintedRefresh(us, ts) ==
    { NewRefreshToken(u, AppRow(a), refreshTTL, t) :
        u \in us, a \in Apps, t \in ts }

\* forgeries of a token: signed again with another key, the payload changed
\* under the old signature, the algorithm set to none
Resign(tok, key) == [tok EXCEPT !.sig = HMAC(tok.alg, tok.payload, key)]
TamperPermissions(tok, codes) == [tok EXCEPT !.payload.permissions = codes]
TamperApp(tok, appID) == [tok EXCEPT !.payload.app_id = appID]
AlgNone(tok) == [tok EXCEPT !.alg = "none",
                            !.sig = [key |-> <<"none">>, over |-> <<>>]]
Malformed == [segments |-> 2, alg |-> "HS256", payload |-> <<>>,
              sig |-> [key |-> <<"none">>, over |-> <<>>]]

OtherKeys(tok) == {AttackerKey} \cup {Secret(b) : b \in Apps \ {tok.payload.app_id}}

Forgeries(tok) ==
    {Resign(tok, k) : k \in OtherKeys(tok)}
    \cup {Resign(TamperApp(tok, b), tok.sig.key) : b \in UnknownApps}
    \cup {TamperPermissions(tok, <<"admin">>), AlgNone(tok)}
    \cup {TamperApp(tok, b) : b \in Apps \ {tok.payload.app_id}}

Ghosts == {GhostRow(g) : g \in GhostUsers}
Holders == {u \in users : u.ID = 1} \cup Ghosts

\* bearer tokens presented to a protected method: minted ones of any age,
\* refresh tokens, forgeries of the tokens minted now, and one that is no JWT
BearerTokens ==
    MintedAccess(Holders, 0..now) \cup MintedRefresh(Holders, {now})
    \cup UNION {Forgeries(tok) :
                  tok \in {NewToken(u, AppRow(1), PermissionRows({DefaultPermID}, 1),
                                    tokenTTL, now) : u \in users}}
    \cup {Malformed}

Metadata ==
    {[kind |-> k, token |-> Malformed] : k \in {"nometadata", "noheader", "raw"}}
    \cup {[kind |-> "raw", token |-> tok] :
            tok \in MintedAccess({u \in users : u.ID = 1}, {now})}
    \cup {[kind |-> "bearer", token |-> tok] : tok \in BearerTokens}

\* the lists of permission codes of at most MaxPolicyLen entries
CodeLists == UNION {[1..n -> PolicyCodes] : n \in 0..MaxPolicyLen}

\* policies tried besides the table's: Required alone, OneOf alone, one of
\* each, and none
PolicyShapes ==
    {MethodPermissions(r, <<>>, FALSE) : r \in CodeLists}
    \cup {MethodPermissions(<<>>, o, FALSE) : o \in CodeLists}
    \cup {MethodPermissions(r, o, TRUE) :
            r \in {l \in CodeLists : Len(l) = 1}, o \in {l \in CodeLists : Len(l) = 1}}
    \cup {MethodPermissions(<<>>, <<>>, TRUE)}

UnlistedMethod == "/sso.Auth/Login"
ProbeMethod == "/probe.Service/Method"
Methods == DOMAIN methodPermissions \cup {UnlistedMethod}

AuthzFaults == {{}, {"App"}, {"UserByID"}, {"HasUserPermission"}}

(***************************************************************************)
(* State.                                                                  *)
(***************************************************************************)
Idle == [op |-> "idle"]

\* the connections that run Storage.VerifyEmail side by side, and one with
\* no transaction open
Conns == {1, 2}
NoTx == [pc |-> "closed"]

\* the service starts on a database holding the rows verifications and
\* resets of email_verification_tokens and password_reset_tokens
Start(verifications, resets) ==
    /\ now = 0
    /\ \E cfg \in TTLConfigs : tokenTTL = cfg[1] /\ refreshTTL = cfg[2]
    /\ users = SeedUsers
    /\ grants = {<<u, DefaultPermID>> : u \in UserIDs}
    /\ refreshTokens = {}
    /\ usersSeq = Cardinality(SeedUsers)
    /\ issued = 0
    /\ verificationTokens = verifications
    /\ resetTokens = resets
    /\ txs = [c \in Conns |-> NoTx]
    /\ call = Idle
    /\ Launched

Init == Start({}, {})

\* a panic left the outermost interceptor while the call was served: the
\* process is gone
Crashed == call.op = "Serve" /\ call.crashed

\* the call served is answered: the next one can be taken
Return ==
    /\ call # Idle
    /\ ~Crashed
    /\ call' = Idle
    /\ UNCHANGED <<shutdown, now, tokenTTL, refreshTTL, account, users, grants, refreshTokens>>

\* a second passes
Tick ==
    /\ call = Idle
    /\ now < MaxTime
    /\ now' = now + 1
    /\ call' = Idle
    /\ UNCHANGED <<shutdown, tokenTTL, refreshTTL, account, users, grants, refreshTokens>>

\* a call of Permission.GrantPermission
Grant(userID, permissionID, faults) ==
    LET r == GrantPermission(userID, permissionID, faults, grants)
    IN  /\ call = Idle
        /\ grants' = r.rows
        /\ call' = [op |-> "GrantPermission", userID |-> userID,
                    permissionID |-> permissionID, faults |-> faults,
                    err |-> r.err, before |-> grants]
        /\ UNCHANGED <<shutdown, now, tokenTTL, refreshTTL, account, users, refreshTokens>>

\* a call of fullMethod passes the interceptor built by InterceptorPermission
\* while methodPermissions is `table`
Intercept(table, fullMethod, md, faults) ==
    LET r == Decide(table, fullMethod, md, faults, now)
    IN  /\ call = Idle
        /\ call' = [op |-> "InterceptorPermission", method |-> fullMethod,
                    policy |-> IF fullMethod \in DOMAIN table
                               THEN <<table[fullMethod]>> ELSE <<>>,
                    md |-> md, faults |-> faults,
                    status |-> r.status, handler |-> r.handler, ctx |-> r.ctx,
                    steps |-> r.steps, lookups |-> r.lookups]
        /\ UNCHANGED <<shutdown, now, tokenTTL, refreshTTL, account, users, grants, refreshTokens>>

\* the interceptor under the shipped policy table
InterceptorPermission ==
    \E m \in Methods, md \in Metadata, f \in AuthzFaults :
        Intercept(methodPermissions, m, md, f)

\* the interceptor with one more entry in the (package-level, assignable)
\* policy table
InterceptorWithPolicy ==
    \E pc \in PolicyShapes, tok \in MintedAccess(Holders, {now}),
       f \in AuthzFaults \ {{"App"}} :
        Intercept(methodPermissions @@ (ProbeMethod :> pc), ProbeMethod,
                  [kind |-> "bearer", token |-> tok], f)

GrantAuthz ==
    \E u \in {1}, pid \in PermIDs \ {DefaultPermID} : Grant(u, pid, {})

NextAuthz == Return \/ Tick \/ GrantAuthz \/ InterceptorPermission \/ InterceptorWithPolicy

SpecAuthz == Init /\ [][NextAuthz]_vars

(***************************************************************************)
(* The credential service: Login, RefreshToken, Logout.                    *)
(***************************************************************************)
\* the recovery interceptor turns a panic below it into Internal
RecoveryStatus == Status("Internal", <<"Internal error">>)

\* authServer.RefreshToken: the status returned for the service's error
RefreshStatus(err) ==
    IF err = "nil" THEN OK
    ELSE IF err = "panic" THEN RecoveryStatus
    ELSE IF err = "ErrTokenNotFound"
         THEN Status("NotFound", <<"refresh token is not found">>)
    ELSE Status("Internal", <<"failed to retrieve refreshed tokens">>)

LoginEmails == {EmailOf(1)} \cup {EmailOf(g) : g \in GhostUsers}
Passwords == {<<"pw", 1>>, <<"wrong">>}
LoginFaults == {{}, {"UserByEmail"}, {"App"}, {"UserByID"}, {"UserPermissions"},
                {"SaveRefresh"}, {"ExistsRefresh"}}
RefreshFaults == {{}, {"App"}, {"UserByID"}, {"UserPermissions"},
                  {"DeleteRefresh"}, {"SaveRefresh"}, {"DeleteRefresh", "SaveRefresh"}}
LogoutFaults == {{}, {"DeleteRefresh"}}

StoredTokens == {r.token : r \in refreshTokens}

\* refresh tokens presented to RefreshToken: the stored ones, ones minted now
\* (stored or not), forgeries, an access token, and one that is no JWT
RefreshInputs ==
    StoredTokens \cup MintedRefresh(Holders, {now})
    \cup UNION {Forgeries(tok) : tok \in MintedRefresh({u \in users : u.ID = 1}, {now})}
    \cup {NewToken(u, AppRow(1), PermissionRows({DefaultPermID}, 1), tokenTTL, now) :
            u \in {x \in users : x.ID = 1}}
    \cup {Malformed}

LogoutInputs == StoredTokens \cup MintedRefresh({u \in users : u.ID = 1}, {now})

\* a Login call
Login(email, password, appID, faults) ==
    LET r == AuthLogin(email, password, appID, faults, refreshTokens, now)
    IN  /\ call = Idle
        /\ Cardinality(r.rows) <= MaxRows
        /\ refreshTokens' = r.rows
        /\ call' = [op |-> "Login", email |-> email, password |-> password,
                    appID |-> appID, faults |-> faults, err |-> r.err,
                    status |-> LoginStatus(r.err), token |-> r.token,
                    refresh |-> r.refresh, expiresAt |-> r.expiresAt,
                    before |-> refreshTokens]
        /\ UNCHANGED <<shutdown, now, tokenTTL, refreshTTL, account, users, grants>>

\* a RefreshToken call
RefreshToken(refresh, faults) ==
    LET r == AuthRefreshToken(refresh, faults, refreshTokens, now)
    IN  /\ call = Idle
        /\ Cardinality(r.rows) <= MaxRows
        /\ refreshTokens' = r.rows
        /\ call' = [op |-> "RefreshToken", old |-> refresh, faults |-> faults,
                    err |-> r.err, status |-> RefreshStatus(r.err),
                    token |-> r.token, refresh |-> r.refresh,
                    expiresAt |-> r.expiresAt, before |-> refreshTokens]
        /\ UNCHANGED <<shutdown, now, tokenTTL, refreshTTL, account, users, grants>>

\* a Logout call
Logout(refresh, faults) ==
    LET r == AuthLogout(refresh, faults, refreshTokens)
    IN  /\ call = Idle
        /\ refreshTokens' = r.rows
        /\ call' = [op |-> "Logout", old |-> refresh, faults |-> faults,
                    success |-> r.success, err |-> r.err, before |-> refreshTokens]
        /\ UNCHANGED <<shutdown, now, tokenTTL, refreshTTL, account, users, grants>>

LoginCall ==
    \E email \in LoginEmails, password \in Passwords,
       appID \in Apps \cup UnknownApps, f \in LoginFaults :
        Login(email, password, appID, f)

RefreshTokenCall ==
    \E refresh \in RefreshInputs, f \in RefreshFaults : RefreshToken(refresh, f)

LogoutCall ==
    \E refresh \in LogoutInputs, f \in LogoutFaults : Logout(refresh, f)

GrantCall == Grant(1, 2, {})

Next == Return \/ Tick \/ GrantCall \/ LoginCall \/ RefreshTokenCall \/ LogoutCall

Spec == Init /\ [][Next]_vars

(***************************************************************************)
(* The interceptor chain of grpcapp.New around the handlers:               *)
(* recovery( logging( permission( handler ))).                             *)
(***************************************************************************)
\* var sensitiveMethods: the keys mapped to true
sensitiveMethods == {"/sso.Auth/Login", "/sso.Auth/Register"}

\* what a stage hands to the stage above it: (resp, err) as resp and status,
\* or a panic unwinding through it
StageResult(status, resp, panic) == [status |-> status, resp |-> resp, panic |-> panic]
Unwinding == StageResult(Status("panic", <<>>), <<>>, TRUE)

\* the records InterceptorLogging writes
RequestEntry(fullMethod) ==
    [level |-> "INFO", msg |-> "gRPC request", method |-> fullMethod, error |-> <<>>]
ErrorEntry(fullMethod, status) ==
    [level |-> "ERROR", msg |-> "gRPC error", method |-> fullMethod,
     error |-> <<status>>]
ResponseEntry(fullMethod) ==
    [level |-> "INFO", msg |-> "gRPC response", method |-> fullMethod, error |-> <<>>]

\* a logging stage that knows no sensitive method
InterceptorLoggingAll(fullMethod, next) ==
    [result |-> next,
     entries |-> <<RequestEntry(fullMethod)>> \o
                 (IF next.panic THEN <<>>
                  ELSE IF next.status.code # "OK"
                       THEN <<ErrorEntry(fullMethod, next.status)>>
                  ELSE <<ResponseEntry(fullMethod)>>)]

\* InterceptorLogging around the result `next` of handler(ctx, req): what it
\* returns and the entries it writes. A panic of the next stage passes
\* through after the request entry.
InterceptorLogging(fullMethod, next) ==
    IF fullMethod \in sensitiveMethods
    THEN [result |-> next, entries |-> <<>>]
    ELSE [result |-> next,
          entries |-> <<RequestEntry(fullMethod)>> \o
                      (IF next.panic THEN <<>>
                       ELSE IF next.status.code # "OK"
                            THEN <<ErrorEntry(fullMethod, next.status)>>
                       ELSE <<ResponseEntry(fullMethod)>>)]

\* a server without the recovery interceptor: the panic leaves the chain
RecoveryAbsent(next) ==
    [status |-> next.status, resp |-> next.resp, recovered |-> FALSE,
     crashed |-> next.panic]

\* recovery.UnaryServerInterceptor with the handler of grpcapp.New: a panic
\* of the stages below becomes the error Internal "Internal error"
Recovery(next) ==
    IF next.panic
    THEN [status |-> RecoveryStatus, resp |-> <<>>, recovered |-> TRUE,
          crashed |-> FALSE]
    ELSE [status |-> next.status, resp |-> next.resp, recovered |-> FALSE,
          crashed |-> FALSE]

\* authServer.Logout: the status returned for the service's error
LogoutStatus(err) ==
    IF err = "nil" THEN OK
    ELSE IF err = "ErrTokenNotFound"
         THEN Status("NotFound", <<"refresh token not found">>)
    ELSE Status("Internal", <<"failed to logout">>)

\* the handlers' returns for the result r of the service call: the result
\* handed to the chain and the refresh records left
LoginResponse(r) ==
    [result |-> StageResult(LoginStatus(r.err),
                            IF r.err = "nil"
                            THEN <<r.token[1], r.refresh[1], r.expiresAt>>
                            ELSE <<>>, FALSE),
     rows |-> r.rows]

RefreshTokenResponse(r) ==
    [result |-> IF r.err = "panic" THEN Unwinding
                ELSE StageResult(RefreshStatus(r.err),
                                 IF r.err = "nil"
                                 THEN <<r.token[1], r.refresh[1], r.expiresAt>>
                                 ELSE <<>>, FALSE),
     rows |-> r.rows]

LogoutResponse(r) ==
    [result |-> StageResult(LogoutStatus(r.err),
                            IF r.err = "nil" THEN <<r.success>> ELSE <<>>, FALSE),
     rows |-> r.rows]

\* authServer.Login, authServer.RefreshToken, authServer.Logout
LoginHandler(email, password, appID, faults, rows, t) ==
    LoginResponse(AuthLogin(email, password, appID, faults, rows, t))

RefreshTokenHandler(refresh, faults, rows, t) ==
    RefreshTokenResponse(AuthRefreshToken(refresh, faults, rows, t))

LogoutHandler(refresh, faults, rows) ==
    LogoutResponse(AuthLogout(refresh, faults, rows))

\* the stages above the authorization stage, around its result `below`: what
\* the call returns, the audit entries written, whether the handler ran and
\* whether a panic came up from below
ChainAbove(fullMethod, ran, below, rows) ==
    Recovery(InterceptorLogging(fullMethod, below).result)
    @@ [audit |-> InterceptorLogging(fullMethod, below).entries,
        handler |-> ran, panicked |-> below.panic, rows |-> rows]

\* the authorization stage with decision authz in front of the handler whose
\* outcome is h
ChainBelow(fullMethod, authz, h, rows) ==
    ChainAbove(fullMethod, authz.handler,
               IF authz.handler THEN h.result
               ELSE StageResult(authz.status, <<>>, FALSE),
               IF authz.handler THEN h.rows ELSE rows)

\* grpc.ChainUnaryInterceptor(recovery, InterceptorLogging,
\* InterceptorPermission) around the handler whose outcome is h, on the
\* refresh records rows at time t: status, resp, recovered, crashed, audit,
\* handler, panicked and the records left
ChainUnaryInterceptor(fullMethod, md, faults, h, rows, t) ==
    ChainBelow(fullMethod, Decide(methodPermissions, fullMethod, md, faults, t),
               h, rows)

\* a call of fullMethod with request req served by the chain; h is the
\* outcome of its handler on the state of the call
Serve(fullMethod, md, faults, req, h) ==
    LET r == ChainUnaryInterceptor(fullMethod, md, faults, h, refreshTokens, now)
    IN  /\ call = Idle
        /\ Cardinality(r.rows) <= MaxRows
        /\ refreshTokens' = r.rows
        /\ call' = [op |-> "Serve", method |-> fullMethod, md |-> md,
                    faults |-> faults, req |-> req, before |-> refreshTokens] @@ r
        /\ UNCHANGED <<shutdown, now, tokenTTL, refreshTTL, account, users, grants>>

\* the metadata of calls that carry no token, and of calls of user 1
NoToken == {[kind |-> k, token |-> Malformed] : k \in {"nometadata", "noheader"}}
OwnToken ==
    {[kind |-> "bearer", token |-> tok] :
        tok \in {NewToken(u, AppRow(1), PermissionRows({DefaultPermID}, 1),
                          tokenTTL, now) : u \in {x \in users : x.ID = 1}}}

ServeLogin ==
    \E email \in LoginEmails, password \in Passwords, appID \in Apps,
       md \in NoToken, f \in {{}, {"UserByEmail"}} :
        Serve("/sso.Auth/Login", md, f, <<email, password, appID>>,
              LoginHandler(email, password, appID, f, refreshTokens, now))

ServeRefreshToken ==
    \E refresh \in RefreshInputs, md \in NoToken, f \in {{}, {"SaveRefresh"}} :
        Serve("/sso.Auth/RefreshToken", md, f, <<refresh>>,
              RefreshTokenHandler(refresh, f, refreshTokens, now))

ServeLogout ==
    \E refresh \in LogoutInputs, md \in NoToken \cup OwnToken,
       f \in {{}, {"DeleteRefresh"}} :
        Serve("/sso.Auth/Logout", md, f, <<refresh>>,
              LogoutHandler(refresh, f, refreshTokens))

\* the outcomes a stage below the logging stage can hand up
StageOutcomes ==
    {StageResult(OK, <<"resp">>, FALSE), Unwinding}
    \cup {StageResult(Status(c, <<"error">>), <<>>, FALSE) :
            c \in {"InvalidArgument", "AlreadyExists", "Unauthenticated", "Internal"}}

LoggedMethods == sensitiveMethods \cup {"/sso.Auth/RefreshToken", "/sso.Auth/Logout"}

\* the logging stage by itself, around a next stage of any outcome
LoggingStage ==
    \E m \in LoggedMethods, next \in StageOutcomes :
        LET r == InterceptorLogging(m, next)
        IN  /\ call = Idle
            /\ call' = [op |-> "InterceptorLogging", method |-> m, next |-> next,
                        result |-> r.result, entries |-> r.entries]
            /\ UNCHANGED <<shutdown, now, tokenTTL, refreshTTL, account, users, grants, refreshTokens>>

NextChain == Return \/ Tick \/ ServeLogin \/ ServeRefreshToken \/ ServeLogout
             \/ LoggingStage

SpecChain == Init /\ [][NextChain]_vars

(***************************************************************************)
(* The token codec on its own: tokens of any age and kind validated        *)
(* against an app's secret.                                                *)
(***************************************************************************)
CodecTokens ==
    MintedAccess(Holders, 0..now) \cup MintedRefresh(Holders, 0..now)
    \cup {NewToken(u, AppRow(1), <<>>, tokenTTL, now) : u \in {x \in users : x.ID = 1}}
    \cup UNION {Forgeries(tok) :
                  tok \in MintedAccess({u \in users : u.ID = 1}, {now})
                          \cup MintedRefresh({u \in users : u.ID = 1}, {now})}
    \cup {Malformed}

\* a call of ValidateToken(tokenString, secret)
ValidateTokenCall ==
    \E tok \in CodecTokens, a \in Apps :
        LET r == ValidateToken(tok, Secret(a), now)
        IN  /\ call = Idle
            /\ call' = [op |-> "ValidateToken", token |-> tok, secret |-> Secret(a),
                        claims |-> r.claims, err |-> r.err]
            /\ UNCHANGED <<shutdown, now, tokenTTL, refreshTTL, account, users, grants, refreshTokens>>

\* a call of ValidateRefreshToken(refreshString, secret)
ValidateRefreshTokenCall ==
    \E tok \in CodecTokens, a \in Apps :
        LET r == ValidateRefreshToken(tok, Secret(a), now)
        IN  /\ call = Idle
            /\ call' = [op |-> "ValidateRefreshToken", token |-> tok,
                        secret |-> Secret(a), claims |-> r.claims, err |-> r.err]
            /\ UNCHANGED <<shutdown, now, tokenTTL, refreshTTL, account, users, grants, refreshTokens>>

\* a call of DecodeWithoutValidation(tokenString)
DecodeCall ==
    \E tok \in CodecTokens :
        LET r == DecodeWithoutValidation(tok)
        IN  /\ call = Idle
            /\ call' = [op |-> "DecodeWithoutValidation", token |-> tok,
                        claims |-> r.claims, err |-> r.err]
            /\ UNCHANGED <<shutdown, now, tokenTTL, refreshTTL, account, users, grants, refreshTokens>>

\* a minted token of either type presented as bearer token to GetUserInfo
BearerCall ==
    \E tok \in MintedAccess(Holders, {now}) \cup MintedRefresh(Holders, 0..now) :
        Intercept(methodPermissions, "/sso.Auth/GetUserInfo",
                  [kind |-> "bearer", token |-> tok], {})

NextCodec == Return \/ Tick \/ GrantAuthz \/ ValidateTokenCall
             \/ ValidateRefreshTokenCall \/ DecodeCall \/ BearerCall

SpecCodec == Init /\ [][NextCodec]_vars

(***************************************************************************)
(* The account flows: GetUserInfo, Register, email verification, password  *)
(* reset. A string of a request is the sequence of its runes where its     *)
(* length matters; a token field is <<>> when the request leaves it empty. *)
(***************************************************************************)
\* the fields GetUserInfoResponse is filled from
Profile(user) ==
    [UserId |-> user.ID, Email |-> user.Email, Name |-> user.Name,
     Phone |-> user.Phone, Address |-> user.Address, Activated |-> user.Activated]

\* a profile read from the verified claims where they carry the field
AuthGetUserInfoFromClaims(token, faults, t) ==
    LET d == DecodeWithoutValidation(token)
        v == ValidateToken(token, Secret(d.claims[1].AppID), t)
        u == UserByID(v.claims[1].UserID, faults)
    IN  IF d.err # "nil" THEN [err |-> d.err, user |-> <<>>]
        ELSE IF App(d.claims[1].AppID, faults).err # "nil"
             THEN [err |-> App(d.claims[1].AppID, faults).err, user |-> <<>>]
        ELSE IF v.err # "nil" THEN [err |-> v.err, user |-> <<>>]
        ELSE IF u.err # "nil" THEN [err |-> u.err, user |-> <<>>]
        ELSE [err |-> "nil",
              user |-> <<[u.user[1] EXCEPT !.Email = v.claims[1].Email,
                                           !.Name = v.claims[1].Name]>>]

\* Auth.GetUserInfo(ctx, token) at time t: the error and the user row the
\* seven results are read from
AuthGetUserInfo(token, faults, t) ==
    LET failed(e) == [err |-> e, user |-> <<>>]
        d == DecodeWithoutValidation(token)
    IN  IF d.err # "nil" THEN failed(d.err)
        ELSE LET a == App(d.claims[1].AppID, faults)
             IN  IF a.err # "nil" THEN failed(a.err)
                 ELSE LET v == ValidateToken(token, a.app[1].Secret, t)
                      IN  IF v.err # "nil" THEN failed(v.err)
                          ELSE LET u == UserByID(v.claims[1].UserID, faults)
                               IN  IF u.err # "nil" THEN failed(u.err)
                                   ELSE [err |-> "nil", user |-> u.user]

\* authServer.GetUserInfo: the status returned for the service's error
GetUserInfoStatus(err) ==
    IF err = "nil" THEN OK
    ELSE IF err = "ErrTokenNotFound"
         THEN Status("NotFound", <<"access token not found">>)
    ELSE Status("Internal", <<"failed to get user info">>)

\* the handler's return for the result r of the service call
GetUserInfoResponse(r) ==
    [err |-> r.err, status |-> GetUserInfoStatus(r.err),
     resp |-> IF r.err = "nil" THEN <<Profile(r.user[1])>> ELSE <<>>]

\* authServer.GetUserInfo(ctx, in) at time t
GetUserInfoHandler(accessToken, faults, t) ==
    IF accessToken = <<>>
    THEN [err |-> "nil", resp |-> <<>>,
          status |-> Status("InvalidArgument",
                            <<"access token is required or invalid">>)]
    ELSE GetUserInfoResponse(AuthGetUserInfo(accessToken[1], faults, t))

\* a user row as it was before its email and name were changed
StaleRow(u) == [u EXCEPT !.Email = <<"mail-before", u.ID>>,
                         !.Name = <<"name-before", u.ID>>]

\* access tokens presented to GetUserInfo: minted for a stored user now or
\* earlier, minted from an earlier state of the row, minted for a user that
\* is not stored, a refresh token, forgeries, and one that is no JWT
InfoTokens ==
    { NewToken(u, AppRow(a), PermissionRows({DefaultPermID}, 1), tokenTTL, t) :
        u \in users \cup {StaleRow(x) : x \in users} \cup Ghosts,
        a \in Apps, t \in 0..now }
    \cup MintedRefresh({u \in users : u.ID = 1}, {now})
    \cup UNION {Forgeries(tok) :
                  tok \in {NewToken(u, AppRow(1), PermissionRows({DefaultPermID}, 1),
                                    tokenTTL, now) : u \in {x \in users : x.ID = 1}}}
    \cup {Malformed}

InfoFaults == {{}, {"App"}, {"UserByID"}}

\* a GetUserInfo call
GetUserInfo(accessToken, faults) ==
    /\ call = Idle
    /\ call' = [op |-> "GetUserInfo", token |-> accessToken, faults |-> faults]
               @@ GetUserInfoHandler(accessToken, faults, now)
    /\ UNCHANGED <<shutdown, now, tokenTTL, refreshTTL, account, users, grants, refreshTokens>>

GetUserInfoCall ==
    \/ GetUserInfo(<<>>, {})
    \/ \E tok \in InfoTokens, f \in InfoFaults : GetUserInfo(<<tok>>, f)

\* utf8.RuneCountInString(s) and len(s): a string is the sequence of its
\* runes, a rune the number of bytes of its UTF-8 encoding
RuneCountInString(s) == Len(s)
RECURSIVE ByteLen(_)
ByteLen(s) == IF s = <<>> THEN 0 ELSE Head(s) + ByteLen(Tail(s))

\* the string of n runes of w bytes each
Runes(n, w) == [i \in 1..n |-> w]

MaxEmailLen == 255
MinPasswordLen == 8
MaxPasswordLen == 72
BcryptCost == 14

\* validator.ValidateUserEmail: v.Valid() afterwards. An email matches
\* EmailRX when it is an address (tag "mail" or "MAIL").
ValidateUserEmail(email) ==
    /\ email # <<>>
    /\ RuneCountInString(email) <= MaxEmailLen
    /\ email[1] \in {"mail", "MAIL"}

\* validator.ValidateUserPassword: v.Valid() afterwards
ValidateUserPassword(password) ==
    /\ password # <<>>
    /\ RuneCountInString(password) >= MinPasswordLen
    /\ RuneCountInString(password) <= MaxPasswordLen

\* bcrypt.GenerateFromPassword(password, cost): a cost outside 4..31 and a
\* password of more than 72 bytes are errors
GenerateFromPassword(password, cost) ==
    IF cost < 4 \/ cost > 31 THEN [hash |-> <<>>, err |-> "InvalidCostError"]
    ELSE IF ByteLen(password) > 72 THEN [hash |-> <<>>, err |-> "ErrPasswordTooLong"]
    ELSE [hash |-> <<Hash(password)>>, err |-> "nil"]

\* what SaveUserWithPermission returns and leaves behind
SaveResult(id, name, email, activated, err, us, gs, seq) ==
    [id |-> id, name |-> name, email |-> email, activated |-> activated,
     err |-> err, users |-> us, grants |-> gs, usersSeq |-> seq]

\* an insert that does not look at the stored emails
SaveUserWithPermissionNotUnique(name, phone, address, email, passwordHash, permissionID, faults) ==
    SaveResult(usersSeq + 1, name, email, FALSE, "nil",
               users \cup {[ID |-> usersSeq + 1, Email |-> email, Name |-> name,
                            Phone |-> phone, Address |-> address,
                            PasswordHash |-> passwordHash, Activated |-> FALSE]},
               grants \cup {<<usersSeq + 1, permissionID>>}, usersSeq + 1)

\* Storage.SaveUserWithPermission: one transaction around the insert of the
\* user and the insert of the grant. The id is drawn from users_id_seq
\* before the unique index is consulted and is not given back on rollback.
SaveUserWithPermission(name, phone, address, email, passwordHash, permissionID, faults) ==
    LET id == usersSeq + 1
        failed(e, seq) == SaveResult(0, <<>>, <<>>, FALSE, e, users, grants, seq)
    IN  IF "Begin" \in faults THEN failed("driver", usersSeq)
        ELSE IF \E u \in users : Fold(u.Email) = Fold(email)
             THEN failed("ErrUserExists", id)
        ELSE IF "AddPermission" \in faults \/ permissionID \notin PermIDs
             THEN failed("driver", id)
        ELSE IF "Commit" \in faults THEN failed("driver", id)
        ELSE SaveResult(id, name, email, FALSE, "nil",
                        users \cup {[ID |-> id, Email |-> email, Name |-> name,
                                     Phone |-> phone, Address |-> address,
                                     PasswordHash |-> passwordHash,
                                     Activated |-> FALSE]},
                        grants \cup {<<id, permissionID>>}, id)

\* Auth.RegisterNewUser: the validation errors are formatted with %v, so
\* they do not wrap services.ErrInvalidEmail / services.ErrInvalidPassword
AuthRegisterNewUser(name, phone, address, email, password, faults) ==
    LET failed(e) == SaveResult(0, <<>>, <<>>, FALSE, e, users, grants, usersSeq)
        h == GenerateFromPassword(password, BcryptCost)
    IN  IF ~ValidateUserEmail(email)
        THEN failed("validation error: invalid email")
        ELSE IF ~ValidateUserPassword(password)
             THEN failed("validation error: invalid password")
        ELSE IF h.err # "nil" THEN failed(h.err)
        ELSE SaveUserWithPermission(name, phone, address, email, h.hash[1],
                                    DefaultPermID, faults)

\* authServer.Register: the status returned for the service's error
RegisterStatus(err) ==
    IF err = "nil" THEN OK
    ELSE IF err = "ErrUserExists"
         THEN Status("AlreadyExists", <<"user already exists">>)
    ELSE IF err = "ErrInvalidEmail" THEN Status("InvalidArgument", <<"invalid email">>)
    ELSE IF err = "ErrInvalidPassword"
         THEN Status("InvalidArgument", <<"invalid password">>)
    ELSE Status("Internal", <<"failed to register user">>)

\* the handler's return for the result r of the service call
RegisterResponse(r) ==
    [status |-> RegisterStatus(r.err),
     resp |-> IF r.err = "nil"
              THEN <<[UserId |-> r.id, Name |-> r.name, Email |-> r.email,
                      Activated |-> r.activated]>>
              ELSE <<>>] @@ r

\* authServer.Register(ctx, in)
RegisterHandler(name, phone, address, email, password, faults) ==
    IF email = <<>>
    THEN [status |-> Status("InvalidArgument", <<"email is required">>), resp |-> <<>>]
         @@ SaveResult(0, <<>>, <<>>, FALSE, "nil", users, grants, usersSeq)
    ELSE IF password = <<>>
    THEN [status |-> Status("InvalidArgument", <<"password is required">>),
          resp |-> <<>>]
         @@ SaveResult(0, <<>>, <<>>, FALSE, "nil", users, grants, usersSeq)
    ELSE RegisterResponse(AuthRegisterNewUser(name, phone, address, email,
                                              password, faults))

\* bounds of the registration runs: the ids users_id_seq hands out
MaxUserSeq == 4

\* emails tried at registration: a registered one in both cases, an
\* unregistered one in both cases, one that is no address, none
RegisterEmails ==
    {EmailOf(1), <<"MAIL", 1>>, EmailOf(3), <<"MAIL", 3>>, <<"no-address">>, <<>>}

\* passwords tried at registration and reset: none, the lengths around both
\* bounds in one-byte runes, and the upper bound in two-byte runes
BoundaryPasswords ==
    {Runes(n, 1) : n \in {0, MinPasswordLen - 1, MinPasswordLen,
                          MaxPasswordLen, MaxPasswordLen + 1}}
    \cup {Runes(MaxPasswordLen, 2)}

RegisterFaults == {{}, {"Begin"}, {"AddPermission"}, {"Commit"}}

\* a Register call
Register(email, password, faults) ==
    LET r == RegisterHandler(<<"name", email>>, <<"phone", email>>,
                             <<"address", email>>, email, password, faults)
    IN  /\ call = Idle
        /\ r.usersSeq <= MaxUserSeq
        /\ users' = r.users
        /\ grants' = r.grants
        /\ usersSeq' = r.usersSeq
        /\ call' = [op |-> "Register", email |-> email, password |-> password,
                    faults |-> faults, err |-> r.err, status |-> r.status,
                    resp |-> r.resp,
                    before |-> [users |-> users, grants |-> grants]]
        /\ UNCHANGED <<shutdown, now, tokenTTL, refreshTTL, refreshTokens, issued,
                       verificationTokens, resetTokens, txs>>

RegisterCall ==
    \E email \in RegisterEmails, password \in BoundaryPasswords,
       f \in RegisterFaults :
        Register(email, password, f)

\* 24 * time.Hour and 1 * time.Hour, in seconds
VerificationTTL == 86400
ResetTTL == 3600

\* bound of the runs: the opaque tokens drawn
MaxIssued == 2

\* hex.EncodeToString of 32 bytes of crypto/rand: the k-th token drawn; no
\* two draws give the same token
OpaqueToken(k) == <<"opaque", k>>

\* an upsert that keeps the rows the user already has
SaveVerificationTokenKeepOld(rows, token, userID, expiresAt) ==
    [rows |-> rows \cup {[token |-> token, user_id |-> userID,
                          expires_at |-> expiresAt]},
     err |-> "nil"]

\* Storage.SaveVerificationToken: INSERT ... ON CONFLICT (user_id) DO UPDATE;
\* column token is unique as well
SaveVerificationToken(rows, token, userID, expiresAt) ==
    IF \E r \in rows : r.token = token /\ r.user_id # userID
    THEN [rows |-> rows, err |-> "driver"]
    ELSE [rows |-> {r \in rows : r.user_id # userID}
                   \cup {[token |-> token, user_id |-> userID,
                          expires_at |-> expiresAt]},
          err |-> "nil"]

\* what SendVerificationEmail returns and leaves behind
SendResult(success, message, exp, err, rows, drawn) ==
    [success |-> success, message |-> message, exp |-> exp, err |-> err,
     verificationTokens |-> rows, issued |-> drawn]

\* Auth.SendVerificationEmail(ctx, userId, appID) at time t
AuthSendVerificationEmail(userId, appID, faults, t) ==
    LET u == UserByID(userId, faults)
        token == OpaqueToken(issued + 1)
        s == SaveVerificationToken(verificationTokens, token, userId,
                                   t + VerificationTTL)
    IN  IF u.err # "nil"
        THEN SendResult(FALSE, "User not found", 0, u.err, verificationTokens, issued)
        ELSE IF u.user[1].Activated
        THEN SendResult(FALSE, "User already activated", 0, "nil",
                        verificationTokens, issued)
        ELSE IF "Rand" \in faults
        THEN SendResult(FALSE, "Failed to generate verification token", 0, "rand",
                        verificationTokens, issued)
        ELSE IF "SaveVerificationToken" \in faults
        THEN SendResult(FALSE, "Failed to save verification token", 0, "driver",
                        verificationTokens, issued + 1)
        ELSE IF s.err # "nil"
        THEN SendResult(FALSE, "Failed to save verification token", 0, s.err,
                        verificationTokens, issued + 1)
        ELSE IF "Mailer" \in faults
        THEN SendResult(FALSE, "Failed to send verification email", 0, "mailer",
                        s.rows, issued + 1)
        ELSE SendResult(TRUE, "Verification email sent successfully",
                        t + VerificationTTL, "nil", s.rows, issued + 1)

\* authServer.SendEmailVerification: the return for the result r of the
\* service call
SendEmailVerificationResponse(r) ==
    [status |-> IF r.err = "nil" THEN OK
                ELSE IF r.err = "ErrInvalidCredentials"
                     THEN Status("InvalidArgument", <<"invalid user id">>)
                ELSE Status("Internal", <<"failed to send email verification">>),
     resp |-> IF r.err = "nil"
              THEN <<[Success |-> r.success, Message |-> r.message,
                      ExpiresAtUnix |-> r.exp]>>
              ELSE <<>>] @@ r

\* authServer.SendEmailVerification(ctx, in) at time t
SendEmailVerificationHandler(userId, appID, faults, t) ==
    IF userId = 0
    THEN [status |-> Status("InvalidArgument", <<"user_id is required">>),
          resp |-> <<>>]
         @@ SendResult(FALSE, "", 0, "nil", verificationTokens, issued)
    ELSE IF appID = 0
    THEN [status |-> Status("InvalidArgument", <<"app_id is required">>),
          resp |-> <<>>]
         @@ SendResult(FALSE, "", 0, "nil", verificationTokens, issued)
    ELSE SendEmailVerificationResponse(
             AuthSendVerificationEmail(userId, appID, faults, t))

\* the statements of Storage.VerifyEmail: the unexpired rows of the token,
\* the users after the update, the tokens after the delete
SelectVerification(rows, token, t) ==
    {r \in rows : r.token = token /\ r.expires_at > t}
ActivateUser(us, userID) ==
    {[u EXCEPT !.Activated = (u.ID = userID) \/ @] : u \in us}
DeleteVerification(rows, token) == {r \in rows : r.token # token}

\* what VerifyEmail returns and leaves behind
VerifyResult(userID, err, us, rows) ==
    [userID |-> userID, err |-> err, users |-> us, verificationTokens |-> rows]

\* Storage.VerifyEmail(ctx, token) at time t with no other transaction
\* open: select, update and delete in one transaction; an error of a
\* statement or of the commit rolls everything back
VerifyEmail(token, faults, t) ==
    LET found == SelectVerification(verificationTokens, token, t)
        failed(e) == VerifyResult(0, e, users, verificationTokens)
    IN  IF "Begin" \in faults THEN failed("driver")
        ELSE IF found = {} THEN failed("ErrTokenNotFound")
        ELSE IF "Commit" \in faults THEN failed("driver")
        ELSE LET userID == (CHOOSE r \in found : TRUE).user_id
             IN  VerifyResult(userID, "nil", ActivateUser(users, userID),
                              DeleteVerification(verificationTokens, token))

\* Auth.EmailVerify(ctx, token) and authServer.EmailVerify(ctx, in) at time
\* t: the handler refuses an empty token before the service sees it
EmailVerifyResponse(r) ==
    [status |-> IF r.err = "nil" THEN OK
                ELSE IF r.err = "ErrInvalidCredentials"
                     THEN Status("InvalidArgument", <<"invalid token">>)
                ELSE Status("Internal", <<"failed to verify email">>),
     resp |-> IF r.err = "nil"
              THEN <<[Success |-> TRUE, Message |-> "Email verified successfully",
                      Activated |-> TRUE]>>
              ELSE <<>>] @@ r

EmailVerifyHandler(token, faults, t) ==
    IF token = <<>>
    THEN [status |-> Status("InvalidArgument", <<"token is required">>),
          resp |-> <<>>] @@ VerifyResult(0, "nil", users, verificationTokens)
    ELSE EmailVerifyResponse(VerifyEmail(token[1], faults, t))

\* rows left by verification requests of more than a day ago
ExpiredVerifications ==
    {[token |-> OpaqueToken(0), user_id |-> 2, expires_at |-> 0]}

\* the user ids and the opaque tokens presented: stored, drawn before, and
\* never drawn
SendUsers == {0} \cup UserIDs \cup GhostUsers
SendFaults == {{}, {"UserByID"}, {"Rand"}, {"SaveVerificationToken"}, {"Mailer"}}
OpaqueInputs == {OpaqueToken(k) : k \in 0..issued} \cup {<<"guess">>}
VerifyFaults == {{}, {"Begin"}, {"Commit"}}

\* a SendEmailVerification call
SendEmailVerification(userId, appID, faults) ==
    LET r == SendEmailVerificationHandler(userId, appID, faults, now)
    IN  /\ call = Idle
        /\ r.issued <= MaxIssued
        /\ verificationTokens' = r.verificationTokens
        /\ issued' = r.issued
        /\ call' = [op |-> "SendEmailVerification", userId |-> userId,
                    appID |-> appID, faults |-> faults, err |-> r.err,
                    status |-> r.status, resp |-> r.resp,
                    before |-> verificationTokens]
        /\ UNCHANGED <<shutdown, now, tokenTTL, refreshTTL, users, grants, refreshTokens,
                       usersSeq, resetTokens, txs>>

\* an EmailVerify call
EmailVerify(token, faults) ==
    LET r == EmailVerifyHandler(token, faults, now)
    IN  /\ call = Idle
        /\ users' = r.users
        /\ verificationTokens' = r.verificationTokens
        /\ call' = [op |-> "EmailVerify", token |-> token, faults |-> faults,
                    err |-> r.err, status |-> r.status, resp |-> r.resp,
                    before |-> [users |-> users,
                                verificationTokens |-> verificationTokens]]
        /\ UNCHANGED <<shutdown, now, tokenTTL, refreshTTL, grants, refreshTokens,
                       usersSeq, issued, resetTokens, txs>>

SendEmailVerificationCall ==
    \/ \E userId \in SendUsers, f \in SendFaults : SendEmailVerification(userId, 1, f)
    \/ SendEmailVerification(1, 0, {})

EmailVerifyCall ==
    \/ EmailVerify(<<>>, {})
    \/ \E token \in OpaqueInputs, f \in VerifyFaults : EmailVerify(<<token>>, f)

InitAccount == Start(ExpiredVerifications, {})

\* table password_reset_tokens as the reset flow uses it. A row is
\* [token, user_id, expires_at, used_at], used_at <<>> until the token is
\* consumed.
\* UserSaver.SaveResetToken
SaveResetToken(rows, token, userID, expiresAt) ==
    IF \E r \in rows : r.token = token THEN [rows |-> rows, err |-> "driver"]
    ELSE [rows |-> rows \cup {[token |-> token, user_id |-> userID,
                               expires_at |-> expiresAt, used_at |-> <<>>]},
          err |-> "nil"]

\* UserSaver.ValidateResetToken at time t: resolves the owner of an
\* unexpired, unused token and consumes it; ErrTokenNotFound otherwise
ValidateResetToken(rows, token, t) ==
    LET found == {r \in rows : r.token = token /\ r.expires_at > t /\ r.used_at = <<>>}
    IN  IF found = {} THEN [userID |-> 0, err |-> "ErrTokenNotFound", rows |-> rows]
        ELSE [userID |-> (CHOOSE r \in found : TRUE).user_id, err |-> "nil",
              rows |-> {IF r \in found THEN [r EXCEPT !.used_at = <<t>>] ELSE r :
                          r \in rows}]

\* UserSaver.UpdateUserPassword
UpdateUserPassword(us, userID, passwordHash) ==
    {IF u.ID = userID THEN [u EXCEPT !.PasswordHash = passwordHash] ELSE u : u \in us}

\* UserSaver.DeleteResetToken
DeleteResetToken(rows, token) == {r \in rows : r.token # token}

\* what ForgotPassword returns and leaves behind
ForgotResult(success, message, exp, err, rows, drawn) ==
    [success |-> success, message |-> message, exp |-> exp, err |-> err,
     resetTokens |-> rows, issued |-> drawn]

\* Auth.ForgotPassword(ctx, email, appID) at time t
AuthForgotPassword(email, appID, faults, t) ==
    LET u == UserByEmail(email, faults)
        resetToken == OpaqueToken(issued + 1)
        s == SaveResetToken(resetTokens, resetToken, u.user[1].ID, t + ResetTTL)
    IN  IF u.err = "ErrUserNotFound"
        THEN ForgotResult(TRUE,
                 "If this email is registered, you will receive a reset link",
                 0, "nil", resetTokens, issued)
        ELSE IF u.err # "nil"
        THEN ForgotResult(FALSE, "Failed to process request", 0, u.err,
                          resetTokens, issued)
        ELSE IF "Rand" \in faults
        THEN ForgotResult(FALSE, "Failed to generate reset token", 0, "rand",
                          resetTokens, issued)
        ELSE IF "SaveResetToken" \in faults
        THEN ForgotResult(FALSE, "Failed to save reset token", 0, "driver",
                          resetTokens, issued + 1)
        ELSE IF s.err # "nil"
        THEN ForgotResult(FALSE, "Failed to save reset token", 0, s.err,
                          resetTokens, issued + 1)
        ELSE IF "Mailer" \in faults
        THEN ForgotResult(FALSE, "Failed to send reset email", 0, "mailer",
                          s.rows, issued + 1)
        ELSE ForgotResult(TRUE, "Password reset email sent successfully",
                          t + ResetTTL, "nil", s.rows, issued + 1)

\* authServer.ForgotPassword: the return for the result r of the service call
ForgotPasswordResponse(r) ==
    [status |-> IF r.err = "nil" THEN OK
                ELSE IF r.err = "ErrInvalidCredentials"
                     THEN Status("InvalidArgument", <<"invalid email or password">>)
                ELSE Status("Internal", <<"failed to send forgot password email">>),
     resp |-> IF r.err = "nil"
              THEN <<[Success |-> r.success, Message |-> r.message,
                      ExpiresAtUnix |-> r.exp]>>
              ELSE <<>>] @@ r

\* authServer.ForgotPassword(ctx, in) at time t
ForgotPasswordHandler(email, appID, faults, t) ==
    IF email = <<>>
    THEN [status |-> Status("InvalidArgument", <<"email is required">>),
          resp |-> <<>>] @@ ForgotResult(FALSE, "", 0, "nil", resetTokens, issued)
    ELSE IF appID = 0
    THEN [status |-> Status("InvalidArgument", <<"app_id is required">>),
          resp |-> <<>>] @@ ForgotResult(FALSE, "", 0, "nil", resetTokens, issued)
    ELSE ForgotPasswordResponse(AuthForgotPassword(email, appID, faults, t))

\* what ResetPassword returns and leaves behind
ResetResult(success, message, err, us, rows) ==
    [success |-> success, message |-> message, err |-> err,
     users |-> us, resetTokens |-> rows]

\* the part of Auth.ResetPassword after the token was resolved to userID:
\* hash, update, delete; rows is the table after the resolution
ResetResolved(userID, token, newPassword, faults, rows) ==
    LET h == GenerateFromPassword(newPassword, BcryptCost)
    IN  IF h.err # "nil"
        THEN ResetResult(FALSE, "Failed to process new password", h.err, users, rows)
        ELSE IF "UpdateUserPassword" \in faults
        THEN ResetResult(FALSE, "Failed to update password", "driver", users, rows)
        ELSE ResetResult(TRUE, "Password reset successfully", "nil",
                         UpdateUserPassword(users, userID, h.hash[1]),
                         IF "DeleteResetToken" \in faults THEN rows
                         ELSE DeleteResetToken(rows, token))

\* a reset that goes on after the token was not found
AuthResetPasswordAnyToken(token, newPassword, faults, t) ==
    IF ~ValidateUserPassword(newPassword)
    THEN ResetResult(FALSE, "Invalid password format", "validation error",
                     users, resetTokens)
    ELSE ResetResolved(
             IF \E r \in resetTokens : r.token = token
             THEN (CHOOSE r \in resetTokens : r.token = token).user_id ELSE 0,
             token, newPassword, faults, resetTokens)

\* Auth.ResetPassword(ctx, token, newPassword) at time t; the handler has
\* refused an empty token and an empty password before
AuthResetPassword(token, newPassword, faults, t) ==
    LET v == ValidateResetToken(resetTokens, token, t)
    IN  IF ~ValidateUserPassword(newPassword)
        THEN ResetResult(FALSE, "Invalid password format", "validation error",
                         users, resetTokens)
        ELSE IF "ValidateResetToken" \in faults
        THEN ResetResult(FALSE, "Failed to process reset request", "driver",
                         users, resetTokens)
        ELSE IF v.err # "nil"
        THEN ResetResult(FALSE, "Invalid or expired reset token", v.err,
                         users, resetTokens)
        ELSE ResetResolved(v.userID, token, newPassword, faults, v.rows)

\* authServer.ResetPassword: the return for the result r of the service call
ResetPasswordResponse(r) ==
    [status |-> IF r.err = "nil" THEN OK
                ELSE IF r.err = "ErrInvalidCredentials"
                     THEN Status("InvalidArgument", <<"invalid token">>)
                ELSE Status("Internal", <<"failed to reset password">>),
     resp |-> IF r.err = "nil"
              THEN <<[Success |-> r.success, Message |-> r.message]>>
              ELSE <<>>] @@ r

\* authServer.ResetPassword(ctx, in) at time t
ResetPasswordHandler(token, newPassword, faults, t) ==
    IF token = <<>>
    THEN [status |-> Status("InvalidArgument", <<"token is required">>),
          resp |-> <<>>] @@ ResetResult(FALSE, "", "nil", users, resetTokens)
    ELSE IF newPassword = <<>>
    THEN [status |-> Status("InvalidArgument", <<"new password is required">>),
          resp |-> <<>>] @@ ResetResult(FALSE, "", "nil", users, resetTokens)
    ELSE ResetPasswordResponse(AuthResetPassword(token[1], newPassword, faults, t))

\* a row left by a reset request of more than an hour ago
ExpiredResets ==
    {[token |-> OpaqueToken(0), user_id |-> 2, expires_at |-> 0, used_at |-> <<>>]}

ForgotEmails == {EmailOf(1), <<"MAIL", 1>>, <<>>} \cup {EmailOf(g) : g \in GhostUsers}
ForgotFaults == {{}, {"UserByEmail"}, {"Rand"}, {"SaveResetToken"}, {"Mailer"}}
ResetFaults == {{}, {"ValidateResetToken"}, {"UpdateUserPassword"},
                {"DeleteResetToken"}}

\* a ForgotPassword call
ForgotPassword(email, appID, faults) ==
    LET r == ForgotPasswordHandler(email, appID, faults, now)
    IN  /\ call = Idle
        /\ r.issued <= MaxIssued
        /\ resetTokens' = r.resetTokens
        /\ issued' = r.issued
        /\ call' = [op |-> "ForgotPassword", email |-> email, appID |-> appID,
                    faults |-> faults, err |-> r.err, status |-> r.status,
                    resp |-> r.resp, before |-> resetTokens]
        /\ UNCHANGED <<shutdown, now, tokenTTL, refreshTTL, users, grants, refreshTokens,
                       usersSeq, verificationTokens, txs>>

\* a ResetPassword call
ResetPassword(token, newPassword, faults) ==
    LET r == ResetPasswordHandler(token, newPassword, faults, now)
    IN  /\ call = Idle
        /\ users' = r.users
        /\ resetTokens' = r.resetTokens
        /\ call' = [op |-> "ResetPassword", token |-> token,
                    password |-> newPassword, faults |-> faults, err |-> r.err,
                    status |-> r.status, resp |-> r.resp,
                    before |-> [users |-> users, resetTokens |-> resetTokens]]
        /\ UNCHANGED <<shutdown, now, tokenTTL, refreshTTL, grants, refreshTokens,
                       usersSeq, issued, verificationTokens, txs>>

ForgotPasswordCall ==
    \/ \E email \in ForgotEmails, f \in ForgotFaults : ForgotPassword(email, 1, f)
    \/ ForgotPassword(EmailOf(1), 0, {})

ResetPasswordCall ==
    \/ \E password \in BoundaryPasswords : ResetPassword(<<>>, password, {})
    \/ \E token \in OpaqueInputs, password \in BoundaryPasswords, f \in ResetFaults :
          ResetPassword(<<token>>, password, f)

InitPassword == Start({}, ExpiredResets)

NextAccount == Return \/ Tick \/ GetUserInfoCall
               \/ SendEmailVerificationCall \/ EmailVerifyCall

SpecAccount == InitAccount /\ [][NextAccount]_vars

NextRegister == Return \/ RegisterCall

SpecRegister == Init /\ [][NextRegister]_vars

\* registrations of one new address with each of the passwords
RegisterBoundaryCall ==
    \E password \in BoundaryPasswords : Register(EmailOf(3), password, {})

NextPassword ==
    Return \/ RegisterBoundaryCall \/ ForgotPasswordCall \/ ResetPasswordCall

SpecPassword == InitPassword /\ [][NextPassword]_vars

(***************************************************************************)
(* Storage.VerifyEmail statement by statement, on several connections at   *)
(* once. The transaction is opened by s.db.Begin(ctx) without options: it  *)
(* runs at the isolation level READ COMMITTED. A statement sees what was   *)
(* committed when it starts; the writes of a transaction are seen by the   *)
(* others when it commits; an UPDATE waits for the transaction that holds  *)
(* the row.                                                                *)
(***************************************************************************)
\* the transaction of a connection: where it stands, the token it was
\* called with, the user id the check query gave it, the error it returned
Tx(pc, token, userID, err) ==
    [pc |-> pc, token |-> token, userID |-> userID, err |-> err]

\* the connection holds the lock of the users row of userID
HoldsUser(c, userID) ==
    txs[c].pc \in {"updated", "deleted"} /\ txs[c].userID = userID

\* Begin and the check query; pgx.ErrNoRows is returned as ErrTokenNotFound
\* and the deferred Rollback closes the transaction
VerifyEmailBegin(c, token) ==
    LET found == SelectVerification(verificationTokens, token, now)
    IN  /\ txs[c] = NoTx
        /\ txs' = [txs EXCEPT ![c] =
                      IF found = {} THEN Tx("returned", token, 0, "ErrTokenNotFound")
                      ELSE Tx("selected", token,
                              (CHOOSE r \in found : TRUE).user_id, "nil")]
        /\ UNCHANGED <<shutdown, now, tokenTTL, refreshTTL, users, grants, refreshTokens,
                       usersSeq, issued, verificationTokens, resetTokens, call>>

\* UPDATE users SET activated = true WHERE id = $1
VerifyEmailUpdate(c) ==
    /\ txs[c].pc = "selected"
    /\ \A d \in Conns \ {c} : ~HoldsUser(d, txs[c].userID)
    /\ txs' = [txs EXCEPT ![c].pc = "updated"]
    /\ UNCHANGED <<shutdown, now, tokenTTL, refreshTTL, users, grants, refreshTokens,
                   usersSeq, issued, verificationTokens, resetTokens, call>>

\* DELETE FROM email_verification_tokens WHERE token = $1: the number of
\* rows affected is not looked at
VerifyEmailDelete(c) ==
    /\ txs[c].pc = "updated"
    /\ txs' = [txs EXCEPT ![c].pc = "deleted"]
    /\ UNCHANGED <<shutdown, now, tokenTTL, refreshTTL, users, grants, refreshTokens,
                   usersSeq, issued, verificationTokens, resetTokens, call>>

\* tx.Commit: the update and the delete take effect together and the user
\* id is returned
VerifyEmailCommit(c) ==
    /\ txs[c].pc = "deleted"
    /\ users' = ActivateUser(users, txs[c].userID)
    /\ verificationTokens' = DeleteVerification(verificationTokens, txs[c].token)
    /\ txs' = [txs EXCEPT ![c].pc = "returned"]
    /\ UNCHANGED <<shutdown, now, tokenTTL, refreshTTL, grants, refreshTokens,
                   usersSeq, issued, resetTokens, call>>

\* a statement or the commit fails: the deferred Rollback undoes the
\* transaction and the error is returned
VerifyEmailRollback(c) ==
    /\ txs[c].pc \in {"selected", "updated", "deleted"}
    /\ txs' = [txs EXCEPT ![c] = Tx("returned", txs[c].token, 0, "driver")]
    /\ UNCHANGED <<shutdown, now, tokenTTL, refreshTTL, users, grants, refreshTokens,
                   usersSeq, issued, verificationTokens, resetTokens, call>>

\* the token row of user 1, stored by a request at time 0
PendingVerification ==
    [token |-> OpaqueToken(1), user_id |-> 1, expires_at |-> VerificationTTL]

InitVerify == Start(ExpiredVerifications \cup {PendingVerification}, {})

NextVerify ==
    \/ Tick
    \/ \E c \in Conns, k \in 0..2 : VerifyEmailBegin(c, OpaqueToken(k))
    \/ \E c \in Conns : VerifyEmailUpdate(c)
    \/ \E c \in Conns : VerifyEmailDelete(c)
    \/ \E c \in Conns : VerifyEmailCommit(c)
    \/ \E c \in Conns : VerifyEmailRollback(c)

SpecVerify == InitVerify /\ [][NextVerify]_vars

(***************************************************************************)
(* The permission authority called directly: HasUserPermission and         *)
(* ValidateUserAccess.                                                     *)
(***************************************************************************)
\* Storage.GetUserPermissions: the codes of the join, in the order of the ids
StorageGetUserPermissions(id, faults) ==
    IF "GetUserPermissions" \in faults THEN [permissions |-> <<>>, err |-> "driver"]
    ELSE [permissions |->
              [i \in 1..Len(UserPermissions(id, {}).permissions) |->
                  UserPermissions(id, {}).permissions[i].Code],
          err |-> "nil"]

\* Permission.GetUserPermissions
GetUserPermissions(userID, faults) ==
    IF validateUserExists(userID, faults) # "nil"
    THEN [permissions |-> <<>>, err |-> validateUserExists(userID, faults)]
    ELSE StorageGetUserPermissions(userID, faults)

\* the entries of required that are no entry of held, in required's order
RECURSIVE Missing(_, _)
Missing(required, held) ==
    IF required = <<>> THEN <<>>
    ELSE (IF \E i \in 1..Len(held) : held[i] = Head(required)
          THEN <<>> ELSE <<Head(required)>>)
         \o Missing(Tail(required), held)

\* what ValidateUserAccess returns: the error, the codes its message lists,
\* and the number of lookups made
AccessResult(err, missing, lookups) ==
    [err |-> err, missing |-> missing, lookups |-> lookups]

\* an access check that loads the user's permissions before it looks at the
\* list
ValidateUserAccessLookupFirst(userID, requiredPermissions, faults) ==
    IF GetUserPermissions(userID, faults).err # "nil"
    THEN AccessResult(GetUserPermissions(userID, faults).err, <<>>, 1)
    ELSE IF Missing(requiredPermissions,
                    GetUserPermissions(userID, faults).permissions) # <<>>
    THEN AccessResult("missing permissions",
             Missing(requiredPermissions,
                     GetUserPermissions(userID, faults).permissions), 1)
    ELSE AccessResult("nil", <<>>, 1)

\* Permission.ValidateUserAccess(ctx, userID, requiredPermissions)
ValidateUserAccess(userID, requiredPermissions, faults) ==
    IF Len(requiredPermissions) = 0 THEN AccessResult("nil", <<>>, 0)
    ELSE IF GetUserPermissions(userID, faults).err # "nil"
    THEN AccessResult(GetUserPermissions(userID, faults).err, <<>>, 1)
    ELSE IF Missing(requiredPermissions,
                    GetUserPermissions(userID, faults).permissions) # <<>>
    THEN AccessResult("missing permissions",
             Missing(requiredPermissions,
                     GetUserPermissions(userID, faults).permissions), 1)
    ELSE AccessResult("nil", <<>>, 1)

\* the users asked about, the codes asked for (one that table permissions
\* does not hold, and the empty one), the lists required
AskedUsers == UserIDs \cup GhostUsers
AskedCodes == {Catalogue[pid] : pid \in PermIDs} \cup {"nonesuch", ""}
RequiredLists ==
    UNION {[1..n -> {Catalogue[pid] : pid \in PermIDs}] : n \in 0..MaxPolicyLen}
AuthorityFaults == {{}, {"UserByID"}, {"HasUserPermission"}, {"GetUserPermissions"}}

\* a call of Permission.HasUserPermission
AskHasUserPermission(userID, permission, faults) ==
    LET r == HasUserPermission(userID, permission, faults)
    IN  /\ call = Idle
        /\ call' = [op |-> "HasUserPermission", userID |-> userID,
                    permission |-> permission, faults |-> faults,
                    allowed |-> r.allowed, err |-> r.err]
        /\ UNCHANGED <<shutdown, now, tokenTTL, refreshTTL, account, users, grants,
                       refreshTokens>>

\* a call of Permission.ValidateUserAccess
AskValidateUserAccess(userID, requiredPermissions, faults) ==
    LET r == ValidateUserAccess(userID, requiredPermissions, faults)
    IN  /\ call = Idle
        /\ call' = [op |-> "ValidateUserAccess", userID |-> userID,
                    required |-> requiredPermissions, faults |-> faults,
                    err |-> r.err, missing |-> r.missing, lookups |-> r.lookups]
        /\ UNCHANGED <<shutdown, now, tokenTTL, refreshTTL, account, users, grants,
                       refreshTokens>>

HasUserPermissionCall ==
    \E u \in AskedUsers, code \in AskedCodes, f \in AuthorityFaults :
        AskHasUserPermission(u, code, f)

ValidateUserAccessCall ==
    \E u \in AskedUsers, required \in RequiredLists, f \in AuthorityFaults :
        AskValidateUserAccess(u, required, f)

GrantAuthority ==
    \E u \in UserIDs, pid \in PermIDs \ {DefaultPermID} : Grant(u, pid, {})

NextAuthority ==
    Return \/ GrantAuthority \/ HasUserPermissionCall \/ ValidateUserAccessCall

SpecAuthority == Init /\ [][NextAuthority]_vars

(***************************************************************************)
(* Auth.RefreshToken statement by statement, on connections that run side  *)
(* by side: DeleteRefresh and SaveRefresh are two statements outside any   *)
(* transaction.                                                            *)
(***************************************************************************)
\* a RefreshToken call in flight: the token presented, the pair minted, the
\* record to save
Rotation(pc, old, minted, err) ==
    [pc |-> pc, old |-> old, err |-> err, token |-> minted.token,
     refresh |-> minted.refresh, record |-> minted.rows]

\* the statements in front of DeleteRefresh: decode, app, validation, user,
\* permissions and the new pair. They read no refresh record, so the outcome
\* is that of the whole function on an empty table
RefreshTokenMint(c, refresh) ==
    LET m == AuthRefreshToken(refresh, {}, {}, now)
    IN  /\ txs[c] = NoTx
        /\ txs' = [txs EXCEPT ![c] =
                      Rotation(IF m.err = "nil" THEN "minted" ELSE "returned",
                               refresh, m, m.err)]
        /\ UNCHANGED <<shutdown, now, tokenTTL, refreshTTL, users, grants, refreshTokens,
                       usersSeq, issued, verificationTokens, resetTokens, call>>

\* a.refreshSaver.DeleteRefresh(ctx, refresh): its error is logged
RefreshTokenDelete(c) ==
    /\ txs[c].pc = "minted"
    /\ refreshTokens' = DeleteRefresh(refreshTokens, txs[c].old).rows
    /\ txs' = [txs EXCEPT ![c].pc = "deleted"]
    /\ UNCHANGED <<shutdown, now, tokenTTL, refreshTTL, users, grants,
                   usersSeq, issued, verificationTokens, resetTokens, call>>

\* a.refreshSaver.SaveRefresh(ctx, newRefresh, ...) and the return
RefreshTokenSave(c) ==
    /\ txs[c].pc = "deleted"
    /\ refreshTokens' =
          LET row == CHOOSE r \in txs[c].record : TRUE
          IN  SaveRefresh(refreshTokens, row.token, row.user_id, row.app_id,
                          row.expires_at)
    /\ txs' = [txs EXCEPT ![c].pc = "returned"]
    /\ UNCHANGED <<shutdown, now, tokenTTL, refreshTTL, users, grants,
                   usersSeq, issued, verificationTokens, resetTokens, call>>

\* the refresh token of the session that a Login of user 1 at time 0 opened
SessionToken ==
    NewRefreshToken(CHOOSE u \in SeedUsers : u.ID = 1, AppRow(1), refreshTTL, 0)

\* the service with that session open
InitRotate ==
    /\ now = 0
    /\ tokenTTL = 1
    /\ refreshTTL = 2
    /\ users = SeedUsers
    /\ grants = {<<u, DefaultPermID>> : u \in UserIDs}
    /\ refreshTokens = AuthLogin(EmailOf(1), <<"pw", 1>>, 1, {}, {}, 0).rows
    /\ usersSeq = Cardinality(SeedUsers)
    /\ issued = 0
    /\ verificationTokens = {}
    /\ resetTokens = {}
    /\ txs = [c \in Conns |-> NoTx]
    /\ call = Idle
    /\ Launched

NextRotate ==
    \/ Tick
    \/ \E c \in Conns, refresh \in {SessionToken, Malformed} :
          RefreshTokenMint(c, refresh)
    \/ \E c \in Conns : RefreshTokenDelete(c)
    \/ \E c \in Conns : RefreshTokenSave(c)

SpecRotate == InitRotate /\ [][NextRotate]_vars

(***************************************************************************)
(* The process: main, its two server loops and the storage pool.           *)
(***************************************************************************)
\* the state of the services, which starting and stopping the process
\* leaves alone
services == <<now, tokenTTL, refreshTTL, users, grants, refreshTokens, account, call>>

\* the gRPC server serves at most this many calls at once
MaxInFlight == 2

\* the process runs: no panic left a goroutine and main has not returned
Alive == ~crashed /\ goroutine["main"] # "returned"

\* goroutine g is about to take step p
At(g, p) == Alive /\ goroutine[g] = p

\* errgroup.Group.Go: a member that returns an error cancels grpCtx
Go(err) == grpCtxDone \/ err # "nil"

\* main, the first member: GRPCServer.Run is started in a goroutine of its
\* own, which reports into errChan
LaunchGRPC ==
    /\ At("grpc", "go")
    /\ goroutine' = [goroutine EXCEPT !["grpc"] = "select", !["Run"] = "Listen"]
    /\ UNCHANGED <<grpCtxDone, errChan, gRPCServer, httpServer, inflight, storage,
                   crashed, services>>

\* App.Run up to the accept loop: net.Listen fails or not; Serve on a server
\* that was stopped already returns at once
Run(listens) ==
    /\ At("Run", "Listen")
    /\ IF ~listens
       THEN /\ errChan' = Append(errChan, "grpcApp.Run: listen")
            /\ goroutine' = [goroutine EXCEPT !["Run"] = "returned"]
            /\ UNCHANGED gRPCServer
       ELSE IF gRPCServer = "stopped"
       THEN /\ errChan' = Append(errChan, "grpcApp.Run: the server has been stopped")
            /\ goroutine' = [goroutine EXCEPT !["Run"] = "returned"]
            /\ UNCHANGED gRPCServer
       ELSE /\ gRPCServer' = "serving"
            /\ goroutine' = [goroutine EXCEPT !["Run"] = "Serve"]
            /\ UNCHANGED errChan
    /\ UNCHANGED <<grpCtxDone, httpServer, inflight, storage, crashed, services>>

\* App.Run, the accept loop ends: Serve returns nil once the server is
\* stopped, or an error when accepting fails for good
GRPCServe(fatal) ==
    /\ At("Run", "Serve")
    /\ IF gRPCServer = "stopped"
       THEN /\ ~fatal
            /\ errChan' = Append(errChan, "nil")
            /\ UNCHANGED gRPCServer
       ELSE /\ fatal
            /\ errChan' = Append(errChan, "grpcApp.Run: accept")
            /\ gRPCServer' = "failed"
    /\ goroutine' = [goroutine EXCEPT !["Run"] = "returned"]
    /\ UNCHANGED <<grpCtxDone, httpServer, inflight, storage, crashed, services>>

\* main, the first member, case <-grpCtx.Done(): App.Stop is called, and
\* GracefulStop stops the server accepting
GRPCServerStop ==
    /\ At("grpc", "select")
    /\ grpCtxDone
    /\ gRPCServer' = "stopped"
    /\ goroutine' = [goroutine EXCEPT !["grpc"] = "GracefulStop"]
    /\ UNCHANGED <<grpCtxDone, errChan, httpServer, inflight, storage, crashed,
                   services>>

\* App.Stop returns: GracefulStop blocks until the pending calls are
\* finished; the member returns grpCtx.Err()
GracefulStop ==
    /\ At("grpc", "GracefulStop")
    /\ inflight = 0
    /\ grpCtxDone' = Go("context canceled")
    /\ goroutine' = [goroutine EXCEPT !["grpc"] = "returned"]
    /\ UNCHANGED <<errChan, gRPCServer, httpServer, inflight, storage, crashed,
                   services>>

\* main, the first member, case err := <-errChan: the member returns what
\* the loop returned
GRPCServerExit ==
    /\ At("grpc", "select")
    /\ errChan # <<>>
    /\ errChan' = Tail(errChan)
    /\ grpCtxDone' = Go(Head(errChan))
    /\ goroutine' = [goroutine EXCEPT !["grpc"] = "returned"]
    /\ UNCHANGED <<gRPCServer, httpServer, inflight, storage, crashed, services>>

\* main, the second member up to its wait: Server.Start registers the two
\* handlers, builds the http.Server and starts ListenAndServe in a
\* goroutine of its own; a failed registration is returned
HTTPServerStart(registers) ==
    /\ At("http", "Start")
    /\ IF registers
       THEN /\ httpServer' = "new"
            /\ goroutine' = [goroutine EXCEPT !["http"] = "Done",
                                              !["ListenAndServe"] = "go"]
            /\ UNCHANGED grpCtxDone
       ELSE /\ grpCtxDone' = Go("failed to register auth handler")
            /\ goroutine' = [goroutine EXCEPT !["http"] = "returned"]
            /\ UNCHANGED httpServer
    /\ UNCHANGED <<errChan, gRPCServer, inflight, storage, crashed, services>>

\* main, the second member after <-grpCtx.Done(): Server.Stop. Shutdown
\* closes the listener and returns nil, or the error of its context when
\* the thirty seconds pass first
HTTPServerStop(err) ==
    /\ At("http", "Done")
    /\ grpCtxDone
    /\ httpServer' = "closed"
    /\ grpCtxDone' = Go(err)
    /\ goroutine' = [goroutine EXCEPT !["http"] = "returned"]
    /\ UNCHANGED <<errChan, gRPCServer, inflight, storage, crashed, services>>

\* the goroutine of Server.Start: ListenAndServe on a server shut down
\* already returns ErrServerClosed, otherwise it listens or fails, and any
\* other error than ErrServerClosed is a panic outside every recover
ListenAndServe(listens) ==
    /\ At("ListenAndServe", "go")
    /\ IF httpServer = "closed"
       THEN /\ goroutine' = [goroutine EXCEPT !["ListenAndServe"] = "returned"]
            /\ UNCHANGED <<httpServer, crashed>>
       ELSE IF listens
       THEN /\ httpServer' = "serving"
            /\ goroutine' = [goroutine EXCEPT !["ListenAndServe"] = "Serve"]
            /\ UNCHANGED crashed
       ELSE /\ httpServer' = "failed"
            /\ crashed' = TRUE
            /\ goroutine' = [goroutine EXCEPT !["ListenAndServe"] = "panic"]
    /\ UNCHANGED <<grpCtxDone, errChan, gRPCServer, inflight, storage, services>>

\* the goroutine of Server.Start, the accept loop ends: with ErrServerClosed
\* after Shutdown, or with an error of accepting, which is a panic
ListenAndServeReturns(fatal) ==
    /\ At("ListenAndServe", "Serve")
    /\ IF httpServer = "closed"
       THEN /\ ~fatal
            /\ goroutine' = [goroutine EXCEPT !["ListenAndServe"] = "returned"]
            /\ UNCHANGED <<httpServer, crashed>>
       ELSE /\ fatal
            /\ httpServer' = "failed"
            /\ crashed' = TRUE
            /\ goroutine' = [goroutine EXCEPT !["ListenAndServe"] = "panic"]
    /\ UNCHANGED <<grpCtxDone, errChan, gRPCServer, inflight, storage, services>>

\* main, the signal goroutine: SIGTERM or SIGINT arrives and cancel() runs
Signal ==
    /\ At("signal", "stop")
    /\ grpCtxDone' = TRUE
    /\ goroutine' = [goroutine EXCEPT !["signal"] = "returned"]
    /\ UNCHANGED <<errChan, gRPCServer, httpServer, inflight, storage, crashed,
                   services>>

\* main: grp.Wait() returns when both members have returned
Wait ==
    /\ At("main", "Wait")
    /\ goroutine["grpc"] = "returned"
    /\ goroutine["http"] = "returned"
    /\ grpCtxDone' = TRUE
    /\ goroutine' = [goroutine EXCEPT !["main"] = "CloseStorage"]
    /\ UNCHANGED <<errChan, gRPCServer, httpServer, inflight, storage, crashed,
                   services>>

\* main: application.CloseStorage(), and main returns
CloseStorage ==
    /\ At("main", "CloseStorage")
    /\ storage' = "closed"
    /\ goroutine' = [goroutine EXCEPT !["main"] = "returned"]
    /\ UNCHANGED <<grpCtxDone, errChan, gRPCServer, httpServer, inflight, crashed,
                   services>>

\* the gRPC server takes a call while it accepts
AcceptCall ==
    /\ Alive
    /\ gRPCServer = "serving"
    /\ inflight < MaxInFlight
    /\ inflight' = inflight + 1
    /\ UNCHANGED <<goroutine, grpCtxDone, errChan, gRPCServer, httpServer, storage,
                   crashed, services>>

\* a call the gRPC server serves is answered
FinishCall ==
    /\ Alive
    /\ inflight > 0
    /\ inflight' = inflight - 1
    /\ UNCHANGED <<goroutine, grpCtxDone, errChan, gRPCServer, httpServer, storage,
                   crashed, services>>

InitShutdown == Init

\* the failures are inputs: a listener that cannot be opened, a registration
\* that fails, an accept loop that breaks, a drain that outlasts its timeout
RunCall == \E listens \in BOOLEAN : Run(listens)

GRPCServeCall == \E fatal \in BOOLEAN : GRPCServe(fatal)

HTTPServerStartCall == \E registers \in BOOLEAN : HTTPServerStart(registers)

HTTPServerStopCall ==
    \E err \in {"nil", "context deadline exceeded"} : HTTPServerStop(err)

ListenAndServeCall == \E listens \in BOOLEAN : ListenAndServe(listens)

ListenAndServeReturnsCall == \E fatal \in BOOLEAN : ListenAndServeReturns(fatal)

NextShutdown ==
    \/ Signal
    \/ LaunchGRPC
    \/ RunCall
    \/ GRPCServeCall
    \/ GRPCServerStop
    \/ GracefulStop
    \/ GRPCServerExit
    \/ HTTPServerStartCall
    \/ HTTPServerStopCall
    \/ ListenAndServeCall
    \/ ListenAndServeReturnsCall
    \/ Wait
    \/ CloseStorage
    \/ AcceptCall
    \/ FinishCall

\* the Go scheduler runs every goroutine that can run, and a call that is
\* served is answered; a signal, a new call and a failure need not happen
FairShutdown ==
    /\ WF_vars(LaunchGRPC)
    /\ WF_vars(RunCall)
    /\ WF_vars(GRPCServe(FALSE))
    /\ WF_vars(GRPCServerStop)
    /\ WF_vars(GracefulStop)
    /\ WF_vars(GRPCServerExit)
    /\ WF_vars(HTTPServerStartCall)
    /\ WF_vars(HTTPServerStopCall)
    /\ WF_vars(ListenAndServeCall)
    /\ WF_vars(ListenAndServeReturns(FALSE))
    /\ WF_vars(Wait)
    /\ WF_vars(CloseStorage)
    /\ WF_vars(FinishCall)

SpecShutdown == InitShutdown /\ [][NextShutdown]_vars /\ FairShutdown

(***************************************************************************)
(* Properties.                                                             *)
(***************************************************************************)
\* the token of the call served and what it says
Bearer == call.md.token
Intercepted == call.op = "InterceptorPermission" /\ call.policy # <<>>
Policy == call.policy[1]

\* a well-formed token signed, by an HMAC method, with the given secret
SignedWith(tok, secret) ==
    /\ tok.segments = 3
    /\ tok.alg \in HMACFamily
    /\ tok.sig = HMAC(tok.alg, tok.payload, secret)

\* a token signed with the secret of the app its own claims name
SignedByItsApp(tok) ==
    /\ tok.segments = 3
    /\ tok.payload.app_id \in Apps
    /\ SignedWith(tok, Secret(tok.payload.app_id))

\* a valid access token at the time of the call: signed by its app, of type
\* access, not expired and not used before its time
ValidAccessToken(tok) ==
    /\ SignedByItsApp(tok)
    /\ tok.payload.type = "access"
    /\ now < tok.payload.exp
    /\ tok.payload.nbf # <<>> => tok.payload.nbf[1] <= now

\* C1: for a method of the policy table the handler runs only for a bearer
\* token that is well formed, signed under the secret of the app its claims
\* name and of type access; the user id and the claims handed on are those
\* of the verified payload. No token signed with another key gets through.
C1_HandlerOnlyAfterFullValidation ==
    (Intercepted /\ call.handler) =>
        /\ call.md.kind = "bearer"
        /\ SignedByItsApp(Bearer)
        /\ Bearer.payload.type = "access"
        /\ call.ctx = <<[user_claims |-> UnmarshalClaims(Bearer.payload),
                         user_id |-> Bearer.payload.user_id]>>

\* C1: a token naming app 1 in its claims and signed with the secret of app
\* 2 was refused
C1_Witness ==
    /\ Intercepted
    /\ call.md.kind = "bearer"
    /\ Bearer.segments = 3
    /\ Bearer.sig.key = Secret(2)
    /\ Bearer.payload.app_id = 1
    /\ ~call.handler
    /\ call.status.code = "Unauthenticated"

\* the authorization stage of the call served reached checkPermissions, and
\* no permission lookup of it could fail: storage answers and the token's
\* user is stored
Checked ==
    /\ Intercepted
    /\ call.steps = <<"metadata", "validate", "check">>
LookupsAnswer ==
    /\ call.faults \cap {"UserByID", "HasUserPermission"} = {}
    /\ \E u \in users : u.ID = Bearer.payload.user_id

\* the code is in the token's snapshot / granted to the token's user in storage
InSnapshot(code) ==
    \E i \in DOMAIN Bearer.payload.permissions : Bearer.payload.permissions[i] = code
InStorage(code) ==
    \E pid \in PermIDs :
        <<Bearer.payload.user_id, pid>> \in grants /\ Catalogue[pid] = code
Held(code) == InSnapshot(code) \/ InStorage(code)

\* the positions of the list whose code is held nowhere
MissingIn(list) == {i \in DOMAIN list : ~Held(list[i])}
Min(S) == CHOOSE x \in S : \A y \in S : x <= y

\* C2: with a non-empty Required list (and lookups that answer), a code held
\* neither in the snapshot nor in storage denies the call with
\* PermissionDenied naming the first such code, and the handler is not run;
\* with every Required code held in one of the two and no OneOf list the
\* call is authorized.
C2_RequiredAllOrDenied ==
    (Checked /\ LookupsAnswer /\ Len(Policy.Required) > 0) =>
        LET missing == MissingIn(Policy.Required)
        IN  /\ missing # {} =>
                /\ ~call.handler
                /\ call.status = Status("PermissionDenied",
                        <<"missing required permission",
                          Policy.Required[Min(missing)]>>)
            /\ (missing = {} /\ Len(Policy.OneOf) = 0) =>
                /\ call.handler
                /\ call.status = OK

\* C2: Required = [admin, staff] and a caller who holds admin only (in the
\* snapshot) was denied for staff
C2_Witness ==
    /\ Checked /\ LookupsAnswer
    /\ Policy.Required = <<"admin", "staff">>
    /\ InSnapshot("admin") /\ ~Held("staff")
    /\ ~call.handler
    /\ call.status.code = "PermissionDenied"

\* the shortest prefix of list that ends with a code granted in storage
FirstStored(list) == Min({i \in DOMAIN list : InStorage(list[i])})

\* C3: with a non-empty OneOf list, no Required list (and lookups that
\* answer): a code of the list in the snapshot authorizes without any storage
\* lookup; otherwise a code granted in storage authorizes and the lookups
\* are the list up to the first granted code; otherwise the call is denied
\* with PermissionDenied naming the list, after looking up every code.
C3_OneOfSnapshotThenStorage ==
    (Checked /\ LookupsAnswer /\ Len(Policy.OneOf) > 0 /\ Len(Policy.Required) = 0) =>
        LET S == Policy.OneOf
        IN  IF \E i \in DOMAIN S : InSnapshot(S[i])
            THEN call.handler /\ call.status = OK /\ call.lookups = <<>>
            ELSE IF \E i \in DOMAIN S : InStorage(S[i])
                 THEN /\ call.handler /\ call.status = OK
                      /\ call.lookups = SubSeq(S, 1, FirstStored(S))
            ELSE /\ ~call.handler
                 /\ call.status = Status("PermissionDenied",
                        <<"missing one of required permissions", S>>)
                 /\ call.lookups = S

\* C3: OneOf = [admin, staff] and a caller who holds staff only was
\* authorized
C3_Witness ==
    /\ Checked /\ LookupsAnswer
    /\ Policy.OneOf = <<"admin", "staff">> /\ Len(Policy.Required) = 0
    /\ ~Held("admin") /\ ~InSnapshot("staff") /\ InStorage("staff")
    /\ call.handler
    /\ call.lookups = <<"admin", "staff">>

\* C4: for GetUserInfo and Logout (RequireAuth alone) every valid access
\* token is authorized, whatever its snapshot and the stored grants, and no
\* permission is looked up.
C4_RequireAuthAlone ==
    (/\ Intercepted
     /\ call.method \in {"/sso.Auth/GetUserInfo", "/sso.Auth/Logout"}
     /\ call.md.kind = "bearer"
     /\ ValidAccessToken(Bearer)
     /\ "App" \notin call.faults) =>
        /\ call.handler
        /\ call.status = OK
        /\ call.lookups = <<>>

\* C4: a valid token of a user without admin or staff, in snapshot or
\* storage, was let through to Logout
C4_Witness ==
    /\ Intercepted
    /\ call.method = "/sso.Auth/Logout"
    /\ call.md.kind = "bearer"
    /\ ValidAccessToken(Bearer)
    /\ ~Held("admin") /\ ~Held("staff")
    /\ call.handler

(***************************************************************************)
(* Properties of the credential service.                                   *)
(***************************************************************************)
Refreshed == call.op = "RefreshToken"
LoggedIn == call.op = "Login"
LoggedOut == call.op = "Logout"

\* the record of a refresh token in a table of refresh records
RecordsOf(rows, token) == {r \in rows : r.token = token}

\* the refresh token presented names a known app and the app lookup answers,
\* so that RefreshToken gets as far as validating it
ReachedValidation ==
    /\ Refreshed
    /\ call.old.segments = 3
    /\ call.old.payload.app_id \in Apps
    /\ "App" \notin call.faults

\* C5 as stated: RefreshToken with a token of a wrong signature returns
\* ErrTokenInvalid, with a correctly signed access token ErrNotRefreshToken;
\* the status is not the recovery wrapper's Internal error, no tokens are
\* minted and the refresh records are unchanged.
C5_ValidationErrorReturned ==
    ReachedValidation =>
        /\ ~SignedByItsApp(call.old) =>
              /\ call.err = "ErrTokenInvalid"
              /\ call.status # RecoveryStatus
        /\ (SignedByItsApp(call.old) /\ call.old.payload.type # "refresh") =>
              /\ call.err = "ErrNotRefreshToken"
              /\ call.status # RecoveryStatus
        /\ (~SignedByItsApp(call.old) \/ call.old.payload.type # "refresh") =>
              /\ call.token = <<>> /\ call.refresh = <<>>
              /\ refreshTokens = call.before

\* the RefreshToken call served succeeded and returned r'
Rotated == Refreshed /\ call.err = "nil"
NewRefresh == call.refresh[1]

\* C6: after a RefreshToken(r) that succeeds and returns r', a record for r'
\* of the token's user and app is stored; the record of r is gone when r'
\* differs from r and the delete met no storage failure; a storage failure of
\* the delete alone does not fail the call: it succeeds, returns the pair
\* and stores r'.
C6_Rotation ==
    /\ Rotated =>
          /\ call.token # <<>>
          /\ \E r \in refreshTokens :
                /\ r.token = NewRefresh
                /\ r.user_id = call.old.payload.user_id
                /\ r.app_id = call.old.payload.app_id
          /\ (NewRefresh # call.old /\ "DeleteRefresh" \notin call.faults) =>
                RecordsOf(refreshTokens, call.old) = {}
    /\ (/\ ReachedValidation
        /\ call.faults = {"DeleteRefresh"}
        /\ SignedByItsApp(call.old) /\ call.old.payload.type = "refresh"
        /\ \E u \in users : u.ID = call.old.payload.user_id) =>
          /\ Rotated
          /\ call.status = OK
          /\ RecordsOf(refreshTokens, NewRefresh) # {}

\* C6: a stored token r was rotated into a different r', and the record of r
\* is gone
C6_Witness ==
    /\ Rotated
    /\ call.faults = {}
    /\ RecordsOf(call.before, call.old) # {}
    /\ NewRefresh # call.old
    /\ RecordsOf(refreshTokens, call.old) = {}
    /\ RecordsOf(refreshTokens, NewRefresh) # {}

\* C7: Logout(r) with a record for r (and a delete that storage serves)
\* removes that record and no other and returns success; with no record for
\* r it returns ErrRefreshTokenNotFound and changes nothing.
C7_LogoutDeletesExactlyOne ==
    (LoggedOut /\ "DeleteRefresh" \notin call.faults) =>
        IF RecordsOf(call.before, call.old) # {}
        THEN /\ call.success /\ call.err = "nil"
             /\ refreshTokens = call.before \ RecordsOf(call.before, call.old)
             /\ Cardinality(refreshTokens) = Cardinality(call.before) - 1
        ELSE /\ ~call.success /\ call.err = "ErrRefreshTokenNotFound"
             /\ refreshTokens = call.before

\* C7: one of two stored records was logged out and the other one remains
C7_Witness ==
    /\ LoggedOut /\ call.success
    /\ Cardinality(call.before) = 2
    /\ Cardinality(refreshTokens) = 1
    /\ RecordsOf(refreshTokens, call.old) = {}

\* the Login call served failed at the credentials: the user lookup failed,
\* the email is not registered, or the password is wrong
Registered(email) == \E u \in users : u.Email = email
RightPassword(email, password) ==
    \E u \in users : u.Email = email /\ CompareHashAndPassword(u.PasswordHash, password)
CredentialFailure ==
    /\ LoggedIn
    /\ \/ "UserByEmail" \in call.faults
       \/ ~Registered(call.email)
       \/ ~RightPassword(call.email, call.password)

\* C8 as stated: every failure of the user lookup, a storage error included,
\* and a wrong password give ErrInvalidCredentials.
C8_EveryLookupFailureCollapses ==
    CredentialFailure =>
        /\ call.err = "ErrInvalidCredentials"
        /\ call.status = Status("InvalidArgument", <<"invalid email or password">>)

\* C8: an unknown email and a wrong password give ErrInvalidCredentials; a
\* storage failure of the user lookup is returned as it is (status Internal),
\* whether or not the email is registered; none of these outcomes mints a
\* token or depends on the email being registered.
C8_CredentialFailures ==
    CredentialFailure =>
        /\ call.err = IF "UserByEmail" \in call.faults THEN "driver"
                      ELSE "ErrInvalidCredentials"
        /\ call.status = IF "UserByEmail" \in call.faults
                         THEN Status("Internal", <<"failed to login">>)
                         ELSE Status("InvalidArgument", <<"invalid email or password">>)
        /\ call.token = <<>> /\ call.refresh = <<>>
        /\ refreshTokens = call.before

\* C8: the user lookup of a registered email failed in storage and Login
\* answered Internal
C8_Witness ==
    /\ LoggedIn
    /\ "UserByEmail" \in call.faults
    /\ Registered(call.email)
    /\ call.status.code = "Internal"

\* C9: when Login returns a token pair, an unexpired record of the returned
\* refresh token, of the user logged in and the app asked for, is stored;
\* when saving the record or the existence check fails, Login returns an
\* error and no tokens.
C9_LoginPersistsRefresh ==
    LoggedIn =>
        /\ (call.err = "nil" \/ call.token # <<>> \/ call.refresh # <<>>) =>
              /\ call.err = "nil" /\ call.token # <<>> /\ call.refresh # <<>>
              /\ \E r \in refreshTokens, u \in users :
                    /\ r.token = call.refresh[1]
                    /\ u.Email = call.email /\ r.user_id = u.ID
                    /\ r.app_id = call.appID
                    /\ r.expires_at > now
        /\ (call.faults \cap {"SaveRefresh", "ExistsRefresh"} # {}
            \/ ~\E r \in refreshTokens : r.app_id = call.appID /\ r.expires_at > now) =>
              /\ call.err # "nil"
              /\ call.token = <<>> /\ call.refresh = <<>>

\* C9: with a negative refresh ttl the record saved is expired at once, the
\* existence check fails and Login returned an error and no tokens
C9_Witness ==
    /\ LoggedIn
    /\ call.faults = {}
    /\ refreshTTL < 0
    /\ RightPassword(call.email, call.password)
    /\ call.appID \in Apps
    /\ call.err = "invalid refresh token"
    /\ call.token = <<>>
    /\ refreshTokens # call.before

(***************************************************************************)
(* Properties of the token codec.                                          *)
(***************************************************************************)
Validated == call.op \in {"ValidateToken", "ValidateRefreshToken"}

\* the token validated is of the type the validation is for
OfOwnType ==
    call.token.payload.type =
        (IF call.op = "ValidateToken" THEN "access" ELSE "refresh")

\* C10 as stated: validating a token of the right type, signed with the
\* secret given, whose expiry lies in the past, fails with ErrTokenExpired, in
\* access validation and in refresh validation.
C10_ExpiredIsTokenExpired ==
    (/\ Validated
     /\ SignedWith(call.token, call.secret)
     /\ OfOwnType
     /\ call.token.payload.exp < now) =>
        call.err = "ErrTokenExpired"

\* the token validated was minted for an app: it names the app and carries
\* the signature of that app's secret
MintedForApp(tok) ==
    /\ tok.segments = 3
    /\ tok.alg \in HMACFamily
    /\ tok.payload.app_id \in Apps
    /\ SignedWith(tok, Secret(tok.payload.app_id))

\* C11: a well-formed token minted for app A, validated against the secret of
\* another app B, fails with ErrTokenInvalid and gives no claims, in access
\* and in refresh validation, whatever its type and expiry.
C11_WrongSecretIsTokenInvalid ==
    (/\ Validated
     /\ MintedForApp(call.token)
     /\ call.secret # Secret(call.token.payload.app_id)) =>
        /\ call.err = "ErrTokenInvalid"
        /\ call.claims = <<>>

\* C11: an expired refresh token of app 1 was refused as invalid by the
\* access validation against the secret of app 2
C11_Witness ==
    /\ call.op = "ValidateToken"
    /\ MintedForApp(call.token)
    /\ call.token.payload.app_id = 1 /\ call.secret = Secret(2)
    /\ call.token.payload.type = "refresh"
    /\ call.token.payload.exp < now
    /\ call.err = "ErrTokenInvalid"

\* the token validated is in its time: not expired, not before its nbf
InItsTime(tok) ==
    /\ now < tok.payload.exp
    /\ tok.payload.nbf # <<>> => tok.payload.nbf[1] <= now

\* C12: access validation of a correctly signed refresh token in its time
\* fails with ErrNotAccessToken, refresh validation of such an access token
\* with ErrNotRefreshToken, and no claims are returned; a refresh token
\* presented as bearer token to a protected method is refused as
\* Unauthenticated and the handler is not run.
C12_TypeConfusionIsDistinct ==
    /\ (/\ Validated
        /\ SignedWith(call.token, call.secret)
        /\ InItsTime(call.token)
        /\ ~OfOwnType) =>
          /\ call.err = (IF call.op = "ValidateToken" THEN "ErrNotAccessToken"
                         ELSE "ErrNotRefreshToken")
          /\ call.claims = <<>>
    /\ (/\ Intercepted
        /\ call.md.kind = "bearer"
        /\ Bearer.segments = 3
        /\ Bearer.payload.type = "refresh") =>
          /\ ~call.handler
          /\ call.status = Status("Unauthenticated", <<"invalid token">>)

\* C12: a correctly signed access token in its time was refused by the
\* refresh validation as not being a refresh token
C12_Witness ==
    /\ call.op = "ValidateRefreshToken"
    /\ SignedWith(call.token, call.secret)
    /\ InItsTime(call.token)
    /\ call.token.payload.type = "access"
    /\ call.err = "ErrNotRefreshToken"

\* C13: the access token minted from (u, a, perms, ttl) with ttl positive,
\* validated in its time against a's secret, is accepted, and the claims
\* returned carry u's id and email, a's id, the codes of perms in their order
\* and type access.
C13_RoundTrip ==
    (call.op = "ValidateToken" /\ tokenTTL > 0) =>
        \A u \in Holders, a \in Apps, t \in 0..now,
           perms \in {PermissionRows(S, 1) : S \in SnapshotSets} \cup {<<>>} :
            (/\ call.token = NewToken(u, AppRow(a), perms, tokenTTL, t)
             /\ call.secret = Secret(a)
             /\ now < t + tokenTTL) =>
                /\ call.err = "nil"
                /\ Len(call.claims) = 1
                /\ call.claims[1].UserID = u.ID
                /\ call.claims[1].Email = u.Email
                /\ call.claims[1].AppID = a
                /\ call.claims[1].Permissions = PermissionCodes(perms)
                /\ call.claims[1].Type = "access"

\* C13: a token minted with the codes user, admin and staff came back from
\* the validation with these three codes
C13_Witness ==
    /\ call.op = "ValidateToken"
    /\ tokenTTL > 0
    /\ call.err = "nil"
    /\ call.token.payload.permissions = <<"user", "admin", "staff">>
    /\ call.claims[1].Permissions = <<"user", "admin", "staff">>
    /\ call.claims[1].UserID = 1
    /\ call.claims[1].Type = "access"

(***************************************************************************)
(* Staleness of the snapshot.                                              *)
(***************************************************************************)
NotInSnapshot(code) == ~InSnapshot(code)

\* the policy of the call served guards by Required alone
RequiredAlone == Len(Policy.Required) > 0 /\ Len(Policy.OneOf) = 0

\* C14: a token whose snapshot lacks a Required code that storage grants to
\* its user at the time of the call (the grant came after the token) is
\* authorized, and through the storage lookup only: the lookups made are
\* exactly the Required codes missing from the snapshot, in list order, and
\* when that lookup fails in storage the call is not authorized.
C14_GrantAfterIssuance ==
    (Checked /\ RequiredAlone
     /\ \E i \in DOMAIN Policy.Required : NotInSnapshot(Policy.Required[i])) =>
        /\ (LookupsAnswer /\ MissingIn(Policy.Required) = {}) =>
              /\ call.handler
              /\ call.status = OK
              /\ call.lookups = SelectSeq(Policy.Required, NotInSnapshot)
        /\ call.faults \cap {"UserByID", "HasUserPermission"} # {} =>
              /\ ~call.handler
              /\ call.status = Status("Internal", <<"failed to check user permissions">>)

\* C14: admin was granted to user 1 in storage, the token holds the code user
\* only, and a call to a method with Required = [admin] was authorized by
\* the lookup of admin
C14_Witness ==
    /\ Checked
    /\ Policy.Required = <<"admin">> /\ Len(Policy.OneOf) = 0
    /\ Bearer.payload.user_id = 1
    /\ Bearer.payload.permissions = <<"user">>
    /\ <<1, 2>> \in grants
    /\ call.handler
    /\ call.lookups = <<"admin">>

\* the snapshot of the token satisfies the policy by itself
SnapshotSatisfies(pc) ==
    /\ \A i \in DOMAIN pc.Required : InSnapshot(pc.Required[i])
    /\ Len(pc.OneOf) > 0 => \E i \in DOMAIN pc.OneOf : InSnapshot(pc.OneOf[i])

\* C15: a valid access token whose snapshot holds the codes a method is
\* guarded by is authorized without any storage permission lookup, whatever
\* storage grants to its user at the time of the call and whether or not
\* storage answers: removing the grant does not reach the token.
C15_RevocationDoesNotReachToken ==
    (/\ Checked
     /\ ValidAccessToken(Bearer)
     /\ Len(Policy.Required) + Len(Policy.OneOf) > 0
     /\ SnapshotSatisfies(Policy)) =>
        /\ call.handler
        /\ call.status = OK
        /\ call.lookups = <<>>

\* C15: the token of user 1 holds admin, storage does not grant admin to
\* user 1, and a call to a method with Required = [admin] was authorized
C15_Witness ==
    /\ Checked
    /\ ValidAccessToken(Bearer)
    /\ Policy.Required = <<"admin">>
    /\ Bearer.payload.user_id = 1
    /\ InSnapshot("admin") /\ ~InStorage("admin")
    /\ call.handler
    /\ call.lookups = <<>>

(***************************************************************************)
(* The authorization stage before the token.                               *)
(***************************************************************************)
\* the call served came through the interceptor, for any method
Served == call.op = "InterceptorPermission"

\* C16: a method that is not in the policy table passes straight through:
\* the handler is called with the context it came with, and the interceptor
\* reads no metadata, decodes no token and looks nothing up, whatever the
\* metadata carries and whether or not storage answers.
C16_UnlistedPassesThrough ==
    (Served /\ call.policy = <<>>) =>
        /\ call.handler
        /\ call.status = OK
        /\ call.ctx = <<>>
        /\ call.steps = <<>>
        /\ call.lookups = <<>>

\* C16: Login was called with no metadata while the app lookup fails, and
\* the handler was run
C16_Witness ==
    /\ Served
    /\ call.method = "/sso.Auth/Login"
    /\ call.md.kind = "nometadata"
    /\ "App" \in call.faults
    /\ call.handler

\* C17: for a method of the policy table, a call without metadata, without
\* authorization header, or with a header that lacks the prefix "Bearer " is
\* refused with Unauthenticated after the metadata step alone: no token is
\* decoded, nothing is looked up and the handler is not run.
C17_HeaderErrorsUnauthenticated ==
    (/\ Intercepted
     /\ call.method \in DOMAIN methodPermissions
     /\ call.md.kind \in {"nometadata", "noheader", "raw"}) =>
        /\ ~call.handler
        /\ call.status = Status("Unauthenticated", <<"missing token">>)
        /\ call.steps = <<"metadata">>
        /\ call.lookups = <<>>

\* C17: a valid access token sent to GetUserInfo without the prefix was
\* refused
C17_Witness ==
    /\ Intercepted
    /\ call.method = "/sso.Auth/GetUserInfo"
    /\ call.md.kind = "raw"
    /\ ValidAccessToken(Bearer)
    /\ ~call.handler
    /\ call.status.code = "Unauthenticated"

(***************************************************************************)
(* Properties of the interceptor chain.                                    *)
(***************************************************************************)
ChainServed == call.op = "Serve"

\* C18: recovery is outermost, then logging, then authorization, then the
\* handler: a panic below recovery never leaves the chain; the call gets
\* Internal "Internal error" and no response, the logging stage had written
\* its request entry, and the next call can be taken; a call the
\* authorization stage refuses does not run the handler, changes nothing and
\* is logged as an error by the logging stage above it.
C18_RecoveryOutermost ==
    ChainServed =>
        /\ ~call.crashed
        /\ call.panicked =>
              /\ call.recovered
              /\ call.status = Status("Internal", <<"Internal error">>)
              /\ call.resp = <<>>
              /\ call.method \notin sensitiveMethods =>
                    call.audit = <<RequestEntry(call.method)>>
              /\ ENABLED Return
        /\ ~call.panicked => ~call.recovered
        /\ ~call.handler =>
              /\ call.status.code = "Unauthenticated"
              /\ refreshTokens = call.before
              /\ call.audit = <<RequestEntry(call.method),
                                ErrorEntry(call.method, call.status)>>

\* C18: RefreshToken was called with a token signed with a foreign key, the
\* handler panicked and the call was answered with Internal
C18_Witness ==
    /\ ChainServed
    /\ call.method = "/sso.Auth/RefreshToken"
    /\ call.req[1].segments = 3
    /\ ~SignedByItsApp(call.req[1])
    /\ call.panicked /\ call.recovered /\ ~call.crashed
    /\ call.status.code = "Internal"

\* C19: for Login and Register the logging stage writes no entry, whatever
\* the next stage returns (a response, an error or a panic), and hands its
\* result on unchanged; a Login served by the whole chain leaves no audit
\* entry.
C19_SensitiveMethodsNotLogged ==
    /\ (call.op = "InterceptorLogging" /\ call.method \in {"/sso.Auth/Login",
                                                           "/sso.Auth/Register"}) =>
          /\ call.entries = <<>>
          /\ call.result = call.next
    /\ (ChainServed /\ call.method = "/sso.Auth/Login") => call.audit = <<>>

\* C19: a Register that failed with AlreadyExists passed the logging stage
\* without an entry
C19_Witness ==
    /\ call.op = "InterceptorLogging"
    /\ call.method = "/sso.Auth/Register"
    /\ call.next.status.code = "AlreadyExists"
    /\ call.entries = <<>>
    /\ call.result = call.next

(***************************************************************************)
(* The snapshot of a refreshed token.                                      *)
(***************************************************************************)
\* the codes storage grants to the user now, in the order of the listing
StoredCodes(userID) ==
    PermissionCodes(PermissionRows({pid \in PermIDs : <<userID, pid>> \in grants}, 1))

\* C20: the access token returned by a successful RefreshToken carries the
\* codes storage grants to the user at the time of the call and the user row
\* as it is stored then: a grant made since the Login shows in the new token.
C20_RefreshTakesFreshSnapshot ==
    Rotated =>
        LET new == call.token[1].payload
        IN  /\ new.type = "access"
            /\ new.user_id = call.old.payload.user_id
            /\ new.app_id = call.old.payload.app_id
            /\ new.permissions = StoredCodes(new.user_id)
            /\ \E u \in users :
                  /\ u.ID = new.user_id
                  /\ new.email = u.Email
                  /\ new.name = u.Name
            /\ new.iat = now

\* C20: the refresh token stored by a Login was rotated after admin had been
\* granted to user 1, and the new access token carries user and admin
C20_Witness ==
    /\ Rotated
    /\ RecordsOf(call.before, call.old) # {}
    /\ call.old.payload.user_id = 1
    /\ <<1, 2>> \in grants
    /\ call.token[1].payload.permissions = <<"user", "admin">>

\* what a GetUserInfo call was given
InfoServed == call.op = "GetUserInfo" /\ call.token # <<>>
InfoToken == call.token[1]

\* the token passes both phases: it names a known app, is signed with that
\* app's secret, is of type access and is not used before its time
PassesBothPhases(tok) ==
    /\ SignedByItsApp(tok)
    /\ tok.payload.type = "access"
    /\ tok.payload.nbf # <<>> => tok.payload.nbf[1] <= now

\* the row stored for a user id, if any
StoredUser(userID) == {u \in users : u.ID = userID}

\* C21: GetUserInfo answers a token that passes the two-phase verification
\* with the profile fields of the row stored now for the verified user id,
\* whatever email and name the token embeds and whatever the row held when
\* the token was minted; a token that fails the verification, and any
\* failing lookup, yields an error and no profile.
C21_ProfileIsTheStoredRow ==
    InfoServed =>
        IF /\ PassesBothPhases(InfoToken)
           /\ call.faults = {}
           /\ StoredUser(InfoToken.payload.user_id) # {}
        THEN /\ call.status = OK
             /\ \E u \in StoredUser(InfoToken.payload.user_id) :
                    call.resp = <<Profile(u)>>
        ELSE /\ call.status.code # "OK"
             /\ call.err # "nil"
             /\ call.resp = <<>>

\* C21: a token minted at time 0 from an earlier email and name of user 1
\* was answered later with the row as stored
C21_Witness ==
    /\ InfoServed
    /\ call.status = OK
    /\ InfoToken.payload.iat = 0 /\ now > 0
    /\ InfoToken.payload.user_id = 1
    /\ InfoToken.payload.email # EmailOf(1)
    /\ call.resp[1].Email = EmailOf(1)
    /\ call.resp[1].Name = <<"name", 1>>

\* what a Register call was given, and the state it found
Registering == call.op = "Register"
RegisteredBefore(email) == \E u \in call.before.users : Fold(u.Email) = Fold(email)

\* the request passes the checks in front of the insert: an address, a
\* password within the bounds that bcrypt takes, no failing statement
ReachesInsert ==
    /\ ValidateUserEmail(call.email)
    /\ RuneCountInString(call.password) \in MinPasswordLen..MaxPasswordLen
    /\ ByteLen(call.password) <= 72
    /\ call.faults = {}

C24_InvalidInputIsInvalidArgument ==
    (/\ Registering
     /\ \/ ~ValidateUserEmail(call.email)
        \/ RuneCountInString(call.password) \notin MinPasswordLen..MaxPasswordLen)
    => /\ call.status.code = "InvalidArgument"
       /\ users = call.before.users

\* C25: a Logout request that reaches its handler and names a refresh token
\* with no record in storage is answered with NotFound.
C25_LogoutOfAbsentIsNotFound ==
    (/\ ChainServed
     /\ call.method = "/sso.Auth/Logout"
     /\ call.handler
     /\ call.faults = {}
     /\ RecordsOf(call.before, call.req[1]) = {})
    => call.status.code = "NotFound"

\* what the verification calls were given
Sent == call.op = "SendEmailVerification"
Verifying == call.op = "EmailVerify" /\ call.token # <<>>
TokensOf(rows, userID) == {r.token : r \in {q \in rows : q.user_id = userID}}
Activated(us, userID) == \E u \in us : u.ID = userID /\ u.Activated

\* C26: no user has two stored verification tokens. A SendEmailVerification
\* call that succeeds leaves the user with exactly one token, a new one,
\* and the token the user had before is stored no more; EmailVerify with a
\* token that is not stored fails, with ErrTokenNotFound once the
\* transaction is open, and activates nobody; EmailVerify with the stored
\* unexpired token succeeds and activates its user.
C26_SingleActiveToken ==
    /\ \A r, q \in verificationTokens : r.user_id = q.user_id => r = q
    /\ (Sent /\ call.status = OK /\ call.resp[1].Success) =>
           /\ Cardinality(TokensOf(verificationTokens, call.userId)) = 1
           /\ TokensOf(verificationTokens, call.userId)
                  \cap {r.token : r \in call.before} = {}
           /\ call.resp[1].ExpiresAtUnix = now + VerificationTTL
    /\ (Verifying /\ \A r \in call.before.verificationTokens :
                         r.token # call.token[1]) =>
           /\ call.err # "nil"
           /\ "Begin" \notin call.faults => call.err = "ErrTokenNotFound"
           /\ users = call.before.users
    /\ (Verifying /\ call.faults = {}
          /\ \E r \in call.before.verificationTokens :
                r.token = call.token[1] /\ r.expires_at > now) =>
           /\ call.status = OK
           /\ \E r \in call.before.verificationTokens :
                 r.token = call.token[1] /\ Activated(users, r.user_id)

\* C26: two verification emails were requested for user 1; EmailVerify with
\* the first token failed and activated nobody while the second token is
\* stored for user 1
C26_Witness ==
    /\ Verifying
    /\ call.token[1] = OpaqueToken(1)
    /\ call.err = "ErrTokenNotFound"
    /\ issued = 2
    /\ TokensOf(verificationTokens, 1) = {OpaqueToken(2)}
    /\ TokensOf(verificationTokens, 2) = {OpaqueToken(0)}
    /\ \A u \in users : ~u.Activated

\* the connections whose VerifyEmail(token) has returned, and those that
\* returned without error
ReturnedFrom(token) ==
    {c \in Conns : txs[c].pc = "returned" /\ txs[c].token = token}
SucceededWith(token) == {c \in ReturnedFrom(token) : txs[c].err = "nil"}

\* C27: VerifyEmail(t) activates the owner and deletes t as one unit: in no
\* state is user 1 activated while its token is stored, or the token gone
\* while user 1 is not activated; a call with an absent or expired token
\* fails with ErrTokenNotFound; and of all the calls with one token, one
\* after the other or side by side, at most one succeeds, the others fail
\* with ErrTokenNotFound (or with the error of a failing statement).
C27_VerifyEmailAtomicSingleUse ==
    /\ Activated(users, 1) <=> PendingVerification \notin verificationTokens
    /\ \A c \in ReturnedFrom(OpaqueToken(0)) \cup ReturnedFrom(OpaqueToken(2)) :
           txs[c].err = "ErrTokenNotFound"
    /\ ~Activated(users, 2)
    /\ \A token \in {OpaqueToken(k) : k \in 0..2} :
           /\ Cardinality(SucceededWith(token)) <= 1
           /\ SucceededWith(token) # {} =>
                 \A c \in ReturnedFrom(token) \ SucceededWith(token) :
                     txs[c].err \in {"ErrTokenNotFound", "driver"}


\* a ForgotPassword call that passed the handler's checks and met no fault
ForgotServed ==
    /\ call.op = "ForgotPassword"
    /\ call.faults = {}
    /\ call.email # <<>>
    /\ call.appID # 0

\* the response ForgotPassword gives for an address nobody registered
UnregisteredResponse ==
    ForgotPasswordHandler(EmailOf(CHOOSE g \in GhostUsers : TRUE), 1, {}, now).resp

\* C28: ForgotPassword answers a registered and an unregistered address
\* alike: no error, and the same success flag, message and expiry field.
C28_ForgotPasswordDoesNotRevealRegistration ==
    ForgotServed =>
        /\ call.status = OK
        /\ call.resp = UnregisteredResponse


\* a ResetPassword call that passed the handler's checks
Resetting ==
    /\ call.op = "ResetPassword"
    /\ call.token # <<>>
    /\ call.password # <<>>

\* token resolves to an owner in rows at the present time
Redeemable(rows, token) == ValidateResetToken(rows, token, now).err = "nil"

\* the owner of token in rows has passwordHash
OwnerHas(rows, token, passwordHash) ==
    \A r \in rows : r.token = token =>
        \E u \in users : u.ID = r.user_id /\ u.PasswordHash = passwordHash

C29_Reset ==
    Resetting =>
        /\ call.err = "nil" =>
              /\ Redeemable(call.before.resetTokens, call.token[1])
              /\ OwnerHas(call.before.resetTokens, call.token[1], Hash(call.password))
              /\ ~Redeemable(resetTokens, call.token[1])
        /\ ~Redeemable(call.before.resetTokens, call.token[1]) =>
              /\ call.err # "nil"
              /\ users = call.before.users
              /\ (ValidateUserPassword(call.password)
                  /\ "ValidateResetToken" \notin call.faults)
                     => call.err = "ErrTokenNotFound"

C29_Consumed ==
    \A k \in 0..issued :
        ~Redeemable(resetTokens, OpaqueToken(k))
            => ~Redeemable(resetTokens', OpaqueToken(k))

PasswordDecides ==
    \/ /\ Registering
       /\ call.password # <<>>
       /\ ValidateUserEmail(call.email)
       /\ ~RegisteredBefore(call.email)
       /\ call.faults = {}
    \/ /\ Resetting
       /\ Redeemable(call.before.resetTokens, call.token[1])
       /\ call.faults = {}

\* the call left the stored users, grants and reset tokens as they were
NothingStored ==
    IF Registering
    THEN users = call.before.users /\ grants = call.before.grants
    ELSE users = call.before.users /\ resetTokens = call.before.resetTokens

\* C23: at registration and at reset a password of fewer than 8 or more than
\* 72 characters is rejected and changes nothing, and a password of 8 to 72
\* characters, the bounds included, is accepted: the call goes on to hashing
\* and persistence and succeeds.
C23_PasswordBounds ==
    PasswordDecides =>
        IF RuneCountInString(call.password) \in MinPasswordLen..MaxPasswordLen
        THEN call.err = "nil"
        ELSE call.err # "nil" /\ NothingStored


\* a GrantPermission call for a stored user in which no statement failed
Granting ==
    /\ call.op = "GrantPermission"
    /\ call.faults = {}
    /\ \E u \in users : u.ID = call.userID

\* C30: granting is idempotent: a grant of a pair succeeds whether or not
\* the pair is stored already, afterwards the pair is stored once and every
\* other association is as it was.
C30_GrantIsIdempotent ==
    Granting =>
        /\ call.err = "nil"
        /\ <<call.userID, call.permissionID>> \in grants
        /\ grants \ {<<call.userID, call.permissionID>>}
              = call.before \ {<<call.userID, call.permissionID>>}

\* C30: the second grant of a pair returned
C30_Witness ==
    /\ Granting
    /\ UsersPermissionsConflict(call.before, call.userID, call.permissionID)
    /\ call.err = "nil"


\* a HasUserPermission call in which no statement failed
Asking == call.op = "HasUserPermission" /\ call.faults = {}
Stored(userID) == \E u \in users : u.ID = userID
InCatalogue(code) == \E pid \in PermIDs : Catalogue[pid] = code
Holds(userID, code) ==
    \E pid \in PermIDs : <<userID, pid>> \in grants /\ Catalogue[pid] = code

\* C31: HasPermission for a user that is not stored fails with
\* InvalidCredentials; for a stored user and a code that table permissions
\* does not hold it fails with InvalidInput instead of answering false; for
\* a stored user and a code of the table it answers true exactly when the
\* user holds the code.
C31_UnknownCodeIsInvalidInput ==
    Asking =>
        /\ (~Stored(call.userID) /\ call.permission # "")
              => call.err = "ErrInvalidCredentials"
        /\ (Stored(call.userID) /\ ~InCatalogue(call.permission))
              => call.err = "ErrInvalidInput"
        /\ (Stored(call.userID) /\ InCatalogue(call.permission))
              => call.err = "nil" /\ (call.allowed <=> Holds(call.userID, call.permission))


Accessing == call.op = "ValidateUserAccess"

\* the codes of required that userID does not hold, in required's order
Lacking(userID, required) ==
    LET lacks(code) == ~Holds(userID, code)
    IN  SelectSeq(required, lacks)

\* C32: ValidateAccess with an empty list succeeds without a lookup, for a
\* user that is not stored and a failing storage too; with a non-empty list,
\* for a stored user and working lookups, it succeeds exactly when the user
\* holds every code of the list and otherwise fails with an error that lists
\* exactly the codes the user lacks, in the order of the list.
C32_ValidateAccessListsTheMissing ==
    Accessing =>
        /\ call.required = <<>> => call.err = "nil" /\ call.lookups = 0
        /\ (call.required # <<>> /\ call.faults = {} /\ Stored(call.userID)) =>
              /\ call.err = "nil" <=> Lacking(call.userID, call.required) = <<>>
              /\ call.err # "nil" =>
                    /\ call.err = "missing permissions"
                    /\ call.missing = Lacking(call.userID, call.required)

\* C32: a check of two codes of which the user holds the first failed
C32_Witness ==
    /\ Accessing
    /\ call.faults = {}
    /\ Len(call.required) = 2
    /\ Holds(call.userID, call.required[1])
    /\ call.err = "missing permissions"
    /\ call.missing = <<call.required[2]>>


\* a RefreshToken call, and whether refresh_tokens held a record of the
\* token presented when the call began
Refreshing == call.op = "RefreshToken"
RecordBefore == \E r \in call.before : r.token = call.old

\* the token is a JWT whose exp lies ahead
Unexpired(tok) == tok.segments = 3 /\ tok.payload.exp > now

\* C34: a refresh token whose record is absent from refresh_tokens, after a
\* Logout or a rotation took it away, is never accepted: RefreshToken with
\* it fails and returns no tokens, however well signed and unexpired it is.
C34_AbsentRecordIsRefused ==
    (Refreshing /\ ~RecordBefore /\ Unexpired(call.old)) =>
        /\ call.err # "nil"
        /\ call.token = <<>>
        /\ call.refresh = <<>>

\* a RefreshToken call that deleted the old record and then failed to save
\* the new one
Interrupted ==
    /\ Refreshing
    /\ RecordBefore
    /\ "DeleteRefresh" \notin call.faults
    /\ "SaveRefresh" \in call.faults
    /\ call.err = "driver"
    /\ Unexpired(call.old)

\* C33: when a RefreshToken stops between the deletion of the old record and
\* the insertion of the new one, the session is left without a valid refresh
\* token: a RefreshToken with the old token, whose record is gone, fails.
C33_InterruptedRotationFailsSafe ==
    Interrupted =>
        /\ ~\E r \in refreshTokens : r.token = call.old
        /\ AuthRefreshToken(call.old, {}, refreshTokens, now).err # "nil"


\* C40: every successful Login creates a refresh record of its own: the
\* token it returns was recorded for no session before, so that no Logout
\* and no rotation of another session can take its record away.
C40_LoginCreatesItsOwnRecord ==
    (call.op = "Login" /\ call.err = "nil") =>
        /\ \A r \in call.before : r.token # call.refresh[1]
        /\ Cardinality(refreshTokens) = Cardinality(call.before) + 1


\* the connections whose RefreshToken call with the session's token returned,
\* and those of them that returned a new pair
ReturnedRotation == {c \in Conns : txs[c].pc = "returned" /\ txs[c].old = SessionToken}
ReturnedPair == {c \in ReturnedRotation : txs[c].err = "nil"}

\* C35: of two RefreshToken calls that present the same refresh token side
\* by side at most one succeeds, and when both have returned refresh_tokens
\* holds exactly one record descending from the Login.
C35_OneRotationWins ==
    /\ Cardinality(ReturnedPair) <= 1
    /\ ReturnedRotation = Conns => Cardinality(refreshTokens) = 1


\* a call in which the interceptor looked a code up in storage
FellBack == call.op = "InterceptorPermission" /\ call.lookups # <<>>

\* the lookup of code for the user of the token presented returns an error
LookupFails(code) ==
    HasUserPermission(call.md.token.payload.user_id, code, call.faults).err # "nil"

\* C36: when a permission lookup during the fallback of a Required or OneOf
\* check returns an error, from a failing storage or because the user of the
\* token is not stored any more, the check ends there with Internal: the
\* handler is not called and no further code is looked up.
C36_LookupErrorIsInternal ==
    FellBack =>
        \A i \in DOMAIN call.lookups :
            LookupFails(call.lookups[i]) =>
                /\ call.status.code = "Internal"
                /\ ~call.handler
                /\ i = Len(call.lookups)

\* C36: a Required list of two codes, presented with the token of a user
\* that is not stored: the first lookup failed and the second was not made
C36_Witness ==
    /\ FellBack
    /\ call.faults = {}
    /\ Len(call.policy[1].Required) = 2
    /\ call.policy[1].Required[1] # call.policy[1].Required[2]
    /\ call.lookups = <<call.policy[1].Required[1]>>
    /\ LookupFails(call.lookups[1])
    /\ call.status.code = "Internal"


\* a call of a method outside the sensitive set served by the chain
Audited == call.op = "Serve" /\ call.method \notin sensitiveMethods

\* C37: for every call of a method outside the sensitive set the logging
\* stage writes the request entry with the method name and then exactly one
\* outcome entry, an error or a response, also when the authorization stage
\* rejects the call and when a stage below or the handler panics.
C37_RequestThenOneOutcome ==
    Audited =>
        /\ Len(call.audit) = 2
        /\ call.audit[1] = RequestEntry(call.method)
        /\ call.audit[2] \in {ErrorEntry(call.method, call.status),
                              ResponseEntry(call.method)}


\* a SendEmailVerification call that did not succeed: it returned an error,
\* or reported without one that nothing was sent
NotSent ==
    /\ Sent
    /\ \/ call.err # "nil"
       \/ call.resp # <<>> /\ ~call.resp[1].Success

\* C39: a SendVerificationEmail that does not succeed, because it returns an
\* error such as a failed mail delivery or because the user is activated
\* already, leaves email_verification_tokens as it was, so that a token
\* issued before still verifies.
C39_FailedSendKeepsTheToken ==
    NotSent => verificationTokens = call.before


\* a server loop runs while its server accepts calls
RPCLoopRuns == gRPCServer = "serving"

GatewayLoopRuns == httpServer = "serving"

\* a server loop ended by itself with an error: the gRPC loop could not
\* listen or stopped accepting, the gateway could not be started or its
\* loop ended with another error than ErrServerClosed
LoopExitedWithError ==
    \/ gRPCServer = "failed"
    \/ goroutine["Run"] = "returned" /\ gRPCServer = "new"
    \/ httpServer = "failed"
    \/ goroutine["http"] = "returned" /\ httpServer = "nil"

\* both members of the group have returned and neither loop runs
BothLoopsReturned ==
    /\ goroutine["grpc"] = "returned"
    /\ goroutine["http"] = "returned"
    /\ ~RPCLoopRuns
    /\ ~GatewayLoopRuns

\* C38: once the cancellation signal has arrived or a server loop has
\* ended with an error, both server loops are stopped and return and the
\* storage pool is closed in the end; the storage pool is never closed
\* unless both loops have returned.
C38_ShutdownOrdering ==
    /\ [](storage = "closed" => BothLoopsReturned)
    /\ (grpCtxDone \/ LoopExitedWithError) ~> (storage = "closed")

====
